---- MODULE Spec2Model ----
(***************************************************************************)
(* A model of the JSON read/write dispatch engine of glaze                 *)
(* (include/glaze/json/read.hpp, include/glaze/json/write.hpp).            *)
(*                                                                         *)
(* Characters are byte values.  An input buffer is a sequence of bytes     *)
(* b, read through a 0-based cursor `it` with end = Len(b); the byte at    *)
(* position end is the terminating NUL of the buffer.                      *)
(*                                                                         *)
(* A handler is an operator from a call state                              *)
(*     [it, err, log, hi, val]                                             *)
(* to the call state it returns with: it is the cursor, err the context's  *)
(* error slot, val the destination value.  log and hi are history          *)
(* variables: log is the sequence of all error kinds assigned to the error *)
(* slot during the call, in order, and hi is the greatest position the     *)
(* cursor has held during the call.                                        *)
(*                                                                         *)
(* The state machine is one thread making a top-level call: Init draws the *)
(* call (operation, options, input, destination), one action per handler   *)
(* performs it.                                                            *)
(***************************************************************************)
EXTENDS Integers, Sequences, FiniteSets, TLC

VARIABLES pc, op, ty, opts, doc, input, old, dest, ctx, sink, resink

vars == <<pc, op, ty, opts, doc, input, old, dest, ctx, sink, resink>>

(***************************************************************************)
(* Bounds of the model.                                                    *)
(***************************************************************************)
\* greatest number of tokens (characters or escapes) between the quotes of a generated string input
MaxTok == 2
\* greatest length of a string value handed to the string writer
MaxStr == 2
\* greatest size of the output buffer on entry to a writer
MaxSize == 2

\* greatest number of members of a generated object
MaxMembers == 2
\* greatest number of tokens of an arbitrary array input
MaxSoup == 4

\* whitespace characters put in front of a document
MaxPad == 2
MaxNull == 3
MaxCap == 2
MaxElems == 3
MaxWr == 3

\* the size dump gives an empty buffer (util/dump.hpp)
DumpInitialSize == 128

(***************************************************************************)
(* Characters.                                                             *)
(***************************************************************************)
ch == [nul |-> 0, bs |-> 8, tab |-> 9, lf |-> 10, ff |-> 12, cr |-> 13,
       sp |-> 32, quote |-> 34, comma |-> 44, minus |-> 45, slash |-> 47,
       d0 |-> 48, d1 |-> 49, d2 |-> 50, d4 |-> 52, d5 |-> 53, d8 |-> 56,
       d9 |-> 57, colon |-> 58,
       uA |-> 65, uC |-> 67, uD |-> 68, uE |-> 69, uF |-> 70,
       lbrack |-> 91, bslash |-> 92, rbrack |-> 93,
       a |-> 97, b |-> 98, c |-> 99, d |-> 100, e |-> 101, f |-> 102,
       l |-> 108, n |-> 110, r |-> 114, s |-> 115, t |-> 116, u |-> 117,
       x |-> 120, y |-> 121, z |-> 122,
       lbrace |-> 123, rbrace |-> 125]

\* *it: the byte under the cursor; the byte at end is the buffer's terminating NUL
At(b, i) == IF i >= 0 /\ i < Len(b) THEN b[i + 1] ELSE ch.nul

\* the bytes of b in [from, to)
Span(b, from, to) == [k \in 1..(to - from) |-> At(b, from + k - 1)]

(***************************************************************************)
(* The call state.                                                         *)
(***************************************************************************)
NoErr == "none"

Ctx0(v) == [it |-> 0, err |-> NoErr, log |-> <<>>, errat |-> 0, hi |-> 0, val |-> v]

\* ctx.error = e
SetErr(s, e) == [s EXCEPT !.err = e, !.log = Append(@, e),
                          !.errat = IF s.log = <<>> THEN s.it ELSE @]

\* it += k
Adv(s, k) == [s EXCEPT !.it = @ + k, !.hi = IF s.it + k > @ THEN s.it + k ELSE @]

\* it = p
Seek(s, p) == [s EXCEPT !.it = p, !.hi = IF p > @ THEN p ELSE @]

SetVal(s, v) == [s EXCEPT !.val = v]

Failed(s) == s.err # NoErr

(***************************************************************************)
(* Scanning helpers of util/parse.hpp.                                     *)
(***************************************************************************)
IsWs(c) == c \in {ch.sp, ch.tab, ch.lf, ch.cr}

RECURSIVE skip_ws(_, _)
skip_ws(s, b) == IF IsWs(At(b, s.it)) THEN skip_ws(Adv(s, 1), b) ELSE s

\* match<c>: the byte under the cursor must be c
match(s, b, c) == IF At(b, s.it) # c THEN SetErr(s, "syntax_error") ELSE Adv(s, 1)

\* match<"str">: the next bytes must be str
match_str(s, b, str) ==
    IF Len(b) - s.it < Len(str) \/ Span(b, s.it, s.it + Len(str)) # str
    THEN SetErr(s, "syntax_error")
    ELSE Adv(s, Len(str))

\* a step written after `if (bool(ctx.error)) return;` is not reached once
\* the error is set
ok_skip_ws(s, b) == IF Failed(s) THEN s ELSE skip_ws(s, b)

ok_match(s, b, c) == IF Failed(s) THEN s ELSE match(s, b, c)

RECURSIVE skip_till_escape_or_quote(_, _)
skip_till_escape_or_quote(s, b) ==
    IF s.it < Len(b)
    THEN IF At(b, s.it) \in {ch.bslash, ch.quote} THEN s
         ELSE skip_till_escape_or_quote(Adv(s, 1), b)
    ELSE SetErr(s, "expected_quote")

RECURSIVE skip_till_quote(_, _)
skip_till_quote(s, b) ==
    IF s.it < Len(b)
    THEN IF At(b, s.it) = ch.quote THEN s ELSE skip_till_quote(Adv(s, 1), b)
    ELSE SetErr(s, "expected_quote")

(***************************************************************************)
(* Escaped unicode.                                                        *)
(***************************************************************************)
isxdigit(c) == \/ c >= 48 /\ c <= 57
               \/ c >= 65 /\ c <= 70
               \/ c >= 97 /\ c <= 102

\* a digit value that knows the lower-case letters only
hex2dec_lower(hex) == (hex % 16) + (IF hex >= 97 THEN 9 ELSE 0)

\* ((hex & 0xf) + (hex >> 6) * 9)
hex2dec(hex) == (hex % 16) + ((hex \div 64) * 9)

\* the four nibbles are or-ed into disjoint bit positions
hex4_to_char32(b, i) ==
    hex2dec(At(b, i + 3)) + (hex2dec(At(b, i + 2)) * 16)
      + (hex2dec(At(b, i + 1)) * 256) + (hex2dec(At(b, i)) * 4096)

IsHighSurrogate(cp) == cp >= 55296 /\ cp <= 56319
IsLowSurrogate(cp) == cp >= 56320 /\ cp <= 57343
IsSurrogate(cp) == IsHighSurrogate(cp) \/ IsLowSurrogate(cp)

\* the UTF-8 code units of code point cp
Utf8(cp) ==
    IF cp < 128 THEN <<cp>>
    ELSE IF cp < 2048 THEN <<192 + (cp \div 64), 128 + (cp % 64)>>
    ELSE IF cp < 65536
         THEN <<224 + (cp \div 4096), 128 + ((cp \div 64) % 64), 128 + (cp % 64)>>
    ELSE <<240 + (cp \div 262144), 128 + ((cp \div 4096) % 64),
           128 + ((cp \div 64) % 64), 128 + (cp % 64)>>

\* std::codecvt<char32_t, char8_t>::out on one code point: ok and the code
\* units, or not ok.  A surrogate is no UTF-32 code point: the facet rejects
\* it, or (lax, older standard libraries) encodes it as three code units.
codecvt_out(cp, lax) ==
    IF IsSurrogate(cp) /\ ~lax THEN [ok |-> FALSE, units |-> <<>>]
    ELSE [ok |-> TRUE, units |-> Utf8(cp)]

\* read_escaped_unicode<char> into a growable string
read_escaped_unicode(s, b, lax) ==
    IF Len(b) - s.it < 4
       \/ ~(\A k \in 0..3 : isxdigit(At(b, s.it + k)))
    THEN SetErr(s, "u_requires_hex_digits")
    ELSE LET codepoint == hex4_to_char32(b, s.it)
             result == codecvt_out(codepoint, lax)
         IN  IF ~result.ok
             THEN SetErr(s, "unicode_escape_conversion_failure")
             ELSE Adv(SetVal(s, s.val \o result.units), 4)

\* read_escaped_unicode<char> into a character: the escape must convert to
\* exactly one code unit
read_escaped_unicode_char(s, b, lax) ==
    IF Len(b) - s.it < 4
       \/ ~(\A k \in 0..3 : isxdigit(At(b, s.it + k)))
    THEN SetErr(s, "u_requires_hex_digits")
    ELSE LET result == codecvt_out(hex4_to_char32(b, s.it), lax)
         IN  IF ~result.ok \/ Len(result.units) # 1
             THEN SetErr(s, "unicode_escape_conversion_failure")
             ELSE Adv(SetVal(s, result.units[1]), 4)

\* from_json<T>::op for char_t<T>.  The \u case returns from the handler:
\* the closing quote is matched after every other character only.
from_json_char(s, b, o) ==
    LET s1 == IF o.opening_handled THEN s
              ELSE ok_match(IF o.ws_handled THEN s ELSE skip_ws(s, b), b, ch.quote)
        c == At(b, s1.it + 1)
        take(v, k) == match(Adv(SetVal(s1, v), k), b, ch.quote)
    IN  IF Failed(s1) THEN s1
        ELSE IF At(b, s1.it) = ch.bslash
        THEN CASE c = ch.nul -> SetErr(Adv(s1, 1), "unexpected_end")
               [] c \in {ch.quote, ch.bslash, ch.slash} -> take(c, 2)
               [] c = ch.b -> take(ch.bs, 2)
               [] c = ch.f -> take(ch.ff, 2)
               [] c = ch.n -> take(ch.lf, 2)
               [] c = ch.r -> take(ch.cr, 2)
               [] c = ch.t -> take(ch.tab, 2)
               [] c = ch.u -> read_escaped_unicode_char(Adv(s1, 2), b, o.lax_codecvt)
               [] OTHER -> SetErr(Adv(s1, 1), "invalid_escape")
        ELSE IF s1.it = Len(b) THEN SetErr(s1, "unexpected_end")
        ELSE take(At(b, s1.it), 1)

(***************************************************************************)
(* The string reader (growable string destination).                        *)
(***************************************************************************)
handle_escaped(s, b, lax) ==
    LET c == At(b, s.it)
        push(v) == Adv(SetVal(s, Append(s.val, v)), 1)
    IN  CASE c \in {ch.quote, ch.bslash, ch.slash} -> push(c)
          [] c = ch.b -> push(ch.bs)
          [] c = ch.f -> push(ch.ff)
          [] c = ch.n -> push(ch.lf)
          [] c = ch.r -> push(ch.cr)
          [] c = ch.t -> push(ch.tab)
          [] c = ch.u -> read_escaped_unicode(Adv(s, 1), b, lax)
          [] OTHER -> SetErr(s, "invalid_escape")

\* value.append(start, it - start)
AppendSpan(s, b, start) == SetVal(s, s.val \o Span(b, start, s.it))

\* while (it < end) { ... }, with the local `start`
RECURSIVE string_loop(_, _, _, _)
string_loop(s, b, start, o) ==
    LET \* if (bool(ctx.error)) return; start = it;
        resume(s2) == IF Failed(s2) THEN s2 ELSE string_loop(s2, b, s2.it, o)
        \* value.append(start, it - start); ++it; handle_escaped();
        escape(s1) ==
            resume(handle_escaped(Adv(AppendSpan(s1, b, start), 1), b, o.lax_codecvt))
        \* value.append(start, it - start); ++it; return;
        close(s1) == Adv(AppendSpan(s1, b, start), 1)
        stop == skip_till_escape_or_quote(s, b)
        c == At(b, s.it)
    IN  IF ~(s.it < Len(b)) THEN s
        ELSE IF ~o.force_conformance
        THEN IF Failed(stop) THEN stop
             ELSE IF At(b, stop.it) = ch.quote THEN close(stop)
             ELSE escape(stop)
        ELSE CASE c = ch.quote -> close(s)
               [] c \in {ch.bs, ch.ff, ch.lf, ch.cr, ch.tab} -> SetErr(s, "syntax_error")
               [] c = ch.nul -> SetErr(s, "unexpected_end")
               [] c = ch.bslash -> escape(s)
               [] OTHER -> string_loop(Adv(s, 1), b, start, o)

\* handle_escaped of the character-array and string-view readers: the
\* character after the backslash is stepped over, nothing is stored
handle_escaped_skip(s, b) ==
    IF At(b, s.it) \in {ch.quote, ch.bslash, ch.slash, ch.b, ch.f, ch.n, ch.r, ch.t, ch.u}
    THEN Adv(s, 1)
    ELSE SetErr(s, "invalid_escape")

\* write_to_char_buffer: n = it - start - 1 characters from start, then NUL
write_to_char_buffer(s, b, start) ==
    LET n == s.it - start - 1
    IN  IF Len(s.val) - 1 < n THEN SetErr(s, "unexpected_end")
        ELSE SetVal(s, [i \in 1..Len(s.val) |->
                            IF i <= n THEN At(b, start + i - 1)
                            ELSE IF i = n + 1 THEN ch.nul
                            ELSE s.val[i]])

\* while (it < end) { ... } of the character-array reader
RECURSIVE char_array_loop(_, _, _, _)
char_array_loop(s, b, start, o) ==
    LET resume(s2) == IF Failed(s2) THEN s2 ELSE char_array_loop(s2, b, start, o)
        stop == skip_till_escape_or_quote(s, b)
        c == At(b, s.it)
        \* ++it; handle_escaped(); write_to_char_buffer();
        written(h) == IF Failed(h) THEN h ELSE resume(write_to_char_buffer(h, b, start))
    IN  IF ~(s.it < Len(b)) THEN s
        ELSE IF ~o.force_conformance
        THEN IF Failed(stop) THEN stop
             ELSE IF At(b, stop.it) = ch.quote
             THEN write_to_char_buffer(Adv(stop, 1), b, start)
             ELSE resume(handle_escaped_skip(Adv(stop, 1), b))
        ELSE CASE c = ch.quote -> Adv(s, 1)
               [] c \in {ch.bs, ch.ff, ch.lf, ch.cr, ch.tab} -> SetErr(s, "syntax_error")
               [] c = ch.nul -> SetErr(s, "unexpected_end")
               [] c = ch.bslash -> written(handle_escaped_skip(Adv(s, 1), b))
               [] OTHER -> char_array_loop(Adv(s, 1), b, start, o)

\* from_json<char_array_t>::op
from_json_char_array(s, b, o) ==
    LET s1 == IF o.opening_handled THEN s
              ELSE ok_match(IF o.ws_handled THEN s ELSE skip_ws(s, b), b, ch.quote)
    IN  IF Failed(s1) THEN s1 ELSE char_array_loop(s1, b, s1.it, o)

\* while (it < end) { ... } of the string-view reader; the view is held as
\* the characters it spans
RECURSIVE str_view_loop(_, _, _, _)
str_view_loop(s, b, start, o) ==
    LET resume(s2) == IF Failed(s2) THEN s2 ELSE str_view_loop(s2, b, start, o)
        stop == skip_till_escape_or_quote(s, b)
        c == At(b, s.it)
        \* value = std::string_view{start, it - start - 1}
        view(s2) == SetVal(s2, Span(b, start, s2.it - 1))
        viewed(h) == IF Failed(h) THEN h ELSE resume(view(h))
    IN  IF ~(s.it < Len(b)) THEN s
        ELSE IF ~o.force_conformance
        THEN IF Failed(stop) THEN stop
             ELSE IF At(b, stop.it) = ch.quote THEN view(Adv(stop, 1))
             ELSE resume(handle_escaped_skip(Adv(stop, 1), b))
        ELSE CASE c = ch.quote -> Adv(s, 1)
               [] c \in {ch.bs, ch.ff, ch.lf, ch.cr, ch.tab} -> SetErr(s, "syntax_error")
               [] c = ch.nul -> SetErr(s, "unexpected_end")
               [] c = ch.bslash -> viewed(handle_escaped_skip(Adv(s, 1), b))
               [] OTHER -> str_view_loop(Adv(s, 1), b, start, o)

\* from_json<str_view_t>::op
from_json_str_view(s, b, o) ==
    LET s1 == IF o.opening_handled THEN s
              ELSE ok_match(IF o.ws_handled THEN s ELSE skip_ws(s, b), b, ch.quote)
    IN  IF Failed(s1) THEN s1 ELSE str_view_loop(s1, b, s1.it, o)

\* from_json<string_t>::op, Opts.number off
from_json_string(s, b, o) ==
    LET s1 == IF o.opening_handled THEN s
              ELSE ok_match(IF o.ws_handled THEN s ELSE skip_ws(s, b), b, ch.quote)
    IN  \* value.clear(); auto start = it;
        IF Failed(s1) THEN s1 ELSE string_loop(SetVal(s1, <<>>), b, s1.it, o)

(***************************************************************************)
(* The output sink: a resizable buffer b and the write index ix.  size is  *)
(* b.size(), text the bytes written during the call, in order.  unchecked  *)
(* is a history variable: the indices written without a bounds check.      *)
(***************************************************************************)
Sink0(size, ix) == [size |-> size, ix |-> ix, text |-> <<>>, unchecked |-> {}]

NoSink == Sink0(0, 0)

Max(a, b) == IF a > b THEN a ELSE b

\* dump (util/dump.hpp): a checked write, the buffer grows when it is full
RECURSIVE dump(_, _)
dump(w, bytes) ==
    IF bytes = <<>> THEN w
    ELSE LET grown == IF w.ix >= w.size
                      THEN [w EXCEPT !.size = IF w.size = 0 THEN DumpInitialSize ELSE w.size * 2]
                      ELSE w
         IN  dump([grown EXCEPT !.text = Append(@, Head(bytes)), !.ix = @ + 1], Tail(bytes))

\* dump_unchecked, std::memcpy(data_ptr(b) + ix, ...): a write with no bounds check
dump_unchecked(w, bytes) ==
    [w EXCEPT !.text = @ \o bytes,
              !.unchecked = @ \cup {w.ix + k : k \in 0..(Len(bytes) - 1)},
              !.ix = @ + Len(bytes)]

\* a writer that copies the backslash as it is
escape_char_raw_backslash(c) ==
    CASE c = ch.quote -> <<ch.bslash, ch.quote>>
      [] c = ch.bs -> <<ch.bslash, ch.b>>
      [] c = ch.ff -> <<ch.bslash, ch.f>>
      [] c = ch.lf -> <<ch.bslash, ch.n>>
      [] c = ch.cr -> <<ch.bslash, ch.r>>
      [] c = ch.tab -> <<ch.bslash, ch.t>>
      [] OTHER -> <<c>>

\* the bytes the string writer emits for the character c
escape_char(c) ==
    CASE c = ch.quote -> <<ch.bslash, ch.quote>>
      [] c = ch.bslash -> <<ch.bslash, ch.bslash>>
      [] c = ch.bs -> <<ch.bslash, ch.b>>
      [] c = ch.ff -> <<ch.bslash, ch.f>>
      [] c = ch.lf -> <<ch.bslash, ch.n>>
      [] c = ch.cr -> <<ch.bslash, ch.r>>
      [] c = ch.tab -> <<ch.bslash, ch.t>>
      [] OTHER -> <<c>>

\* const auto k = ix + 4 * n; if (k >= b.size()) b.resize(max(b.size() * 2, k))
reserve_str(w, n) ==
    LET k == w.ix + (4 * n)
    IN  IF k >= w.size THEN [w EXCEPT !.size = Max(w.size * 2, k)] ELSE w

RECURSIVE write_chars_of(_, _)
write_chars_of(w, str) ==
    IF str = <<>> THEN w
    ELSE write_chars_of(dump_unchecked(w, escape_char(Head(str))), Tail(str))

\* to_json<str_t>::op for a string, Opts.number off, resizable buffer
to_json_str(w, str) ==
    LET w1 == reserve_str(w, Len(str))
        w2 == dump_unchecked(w1, <<ch.quote>>)
        w3 == write_chars_of(w2, str)
    IN  dump_unchecked(w3, <<ch.quote>>)

(***************************************************************************)
(* Flags: a structured type of named boolean members, written as the array *)
(* of the names of the members that are set.                               *)
(***************************************************************************)
FlagNames == << <<ch.x>>, <<ch.y>>, <<ch.z, ch.z>> >>

FlagIx == 1..Len(FlagNames)

RECURSIVE write_flags_from(_, _, _)
write_flags_from(w, value, i) ==
    IF i > Len(FlagNames) THEN w
    ELSE write_flags_from(
            IF value[i]
            THEN dump(dump(dump(dump(w, <<ch.quote>>), FlagNames[i]), <<ch.quote>>), <<ch.comma>>)
            ELSE w,
            value, i + 1)

\* to_json<glaze_flags_t>::op
to_json_flags(w, value) ==
    LET w1 == write_flags_from(dump(w, <<ch.lbrack>>), value, 1)
    IN  IF w1.text[Len(w1.text)] = ch.comma
        THEN [w1 EXCEPT !.text = [@ EXCEPT ![Len(w1.text)] = ch.rbrack]]
        ELSE dump(w1, <<ch.rbrack>>)

\* flag_map.find(s)
FlagFind(name) == {i \in FlagIx : FlagNames[i] = name}

\* while (true) { ... } of the flags reader; the destination is s.val.flags,
\* s.val.str is the thread's scratch string the names are read into
RECURSIVE flags_loop(_, _, _)
flags_loop(s, b, o) ==
    LET \* if (*it == ']') { ++it; return; } match<','>(ctx, it, end);
        next(s2) == IF Failed(s2) THEN s2
                    ELSE IF At(b, s2.it) = ch.rbrack THEN Adv(s2, 1)
                    ELSE flags_loop(match(s2, b, ch.comma), b, o)
        \* get_member(value, x) = true; skip_ws
        set(r, i) == next(skip_ws(SetVal(r, [s.val EXCEPT ![i] = TRUE]), b))
        lookup(r, found) ==
            IF found = {} THEN SetErr(SetVal(r, s.val), "invalid_flag_input")
            ELSE set(r, CHOOSE i \in found : TRUE)
        name(r) == IF Failed(r) THEN SetVal(r, s.val) ELSE lookup(r, FlagFind(r.val))
    IN  name(from_json_string(SetVal(s, <<>>), b, o))

\* from_json<glaze_flags_t>::op
from_json_flags(s, b, o) ==
    LET s2 == ok_match(IF o.ws_handled THEN s ELSE skip_ws(s, b), b, ch.lbrack)
    IN  IF Failed(s2) THEN s2 ELSE flags_loop(s2, b, o)

(***************************************************************************)
(* Numbers, booleans and the generic value skipper.                        *)
(***************************************************************************)
IsDigit(c) == c >= 48 /\ c <= 57

RECURSIVE DigitsEnd(_, _)
DigitsEnd(b, i) == IF IsDigit(At(b, i)) THEN DigitsEnd(b, i + 1) ELSE i

RECURSIVE Decimal(_, _, _)
Decimal(b, from, to) ==
    IF to <= from THEN 0 ELSE (Decimal(b, from, to - 1) * 10) + (At(b, to - 1) - 48)

\* parse_number (util/strod.hpp) for an unsigned integer: a run of digits;
\* without a digit it fails and leaves the cursor where it was
parse_number(b, i) ==
    LET e == DigitsEnd(b, i)
    IN  IF e = i THEN [ok |-> FALSE, cur |-> i, value |-> 0]
        ELSE [ok |-> TRUE, cur |-> e, value |-> Decimal(b, i, e)]

\* from_json<num_t>::op
from_json_num(s, b, o) ==
    LET opening(s0) == IF o.quoted THEN match(skip_ws(s0, b), b, ch.quote) ELSE s0
        ws(s1) == IF o.ws_handled THEN s1 ELSE skip_ws(s1, b)
        \* if constexpr (Options.quoted) match<'"'>(ctx, it, end);
        closing(s4) == IF o.quoted THEN match(s4, b, ch.quote) ELSE s4
        \* it = cur; if (!s) { ctx.error = parse_number_failure; return; }
        store(s3, n) == IF ~n.ok THEN SetErr(s3, "parse_number_failure")
                        ELSE closing(SetVal(s3, n.value))
        number(s2, n) == IF ~o.ws_handled /\ Failed(s2) THEN s2
                         ELSE store(Seek(s2, n.cur), n)
        at(s2) == number(s2, parse_number(b, s2.it))
    IN  at(ws(opening(s)))

\* from_json<bool_t>::op
from_json_bool(s, b, o) ==
    LET value(s1) ==
            IF ~o.ws_handled /\ Failed(s1) THEN s1
            ELSE CASE At(b, s1.it) = ch.t ->
                        match_str(SetVal(Adv(s1, 1), TRUE), b, <<ch.r, ch.u, ch.e>>)
                   [] At(b, s1.it) = ch.f ->
                        match_str(SetVal(Adv(s1, 1), FALSE), b, <<ch.a, ch.l, ch.s, ch.e>>)
                   [] OTHER -> SetErr(s1, "expected_true_or_false")
    IN  value(IF o.ws_handled THEN s ELSE skip_ws(s, b))

\* skip_string (util/parse.hpp): from an opening quote to just past the closing one
RECURSIVE skip_string_body(_, _)
skip_string_body(s, b) ==
    IF ~(s.it < Len(b)) THEN SetErr(s, "expected_quote")
    ELSE IF At(b, s.it) = ch.quote THEN Adv(s, 1)
    ELSE IF At(b, s.it) = ch.bslash
         THEN IF At(b, s.it + 1) = ch.nul THEN SetErr(Adv(s, 1), "unexpected_end")
              ELSE skip_string_body(Adv(s, 2), b)
    ELSE skip_string_body(Adv(s, 1), b)

skip_string(s, b) == skip_string_body(Adv(s, 1), b)

\* skip_until_closed<open, close> (util/parse.hpp): past the bracket closing the open one
RECURSIVE skip_until_closed(_, _, _, _, _)
skip_until_closed(s, b, open, close, depth) ==
    LET c == At(b, s.it)
    IN  IF ~(s.it < Len(b)) \/ c = ch.nul THEN SetErr(s, "unexpected_end")
        ELSE IF c = ch.quote
             THEN LET r == skip_string(s, b)
                  IN  IF Failed(r) THEN r ELSE skip_until_closed(r, b, open, close, depth)
        ELSE IF c = open THEN skip_until_closed(Adv(s, 1), b, open, close, depth + 1)
        ELSE IF c = close
             THEN IF depth = 1 THEN Adv(s, 1)
                  ELSE skip_until_closed(Adv(s, 1), b, open, close, depth - 1)
        ELSE skip_until_closed(Adv(s, 1), b, open, close, depth)

\* skip_value (util/parse.hpp), force_conformance off: one value of any
\* shape; a scalar ends at a comma, a closing bracket or the end of the buffer
RECURSIVE skip_value_loop(_, _)
skip_value_loop(s, b) ==
    LET c == At(b, s.it)
    IN  CASE c = ch.lbrace -> skip_until_closed(Adv(s, 1), b, ch.lbrace, ch.rbrace, 1)
          [] c = ch.lbrack -> skip_until_closed(Adv(s, 1), b, ch.lbrack, ch.rbrack, 1)
          [] c = ch.quote -> skip_string(s, b)
          [] c \in {ch.comma, ch.rbrace, ch.rbrack, ch.nul} -> s
          [] OTHER -> skip_value_loop(Adv(s, 1), b)

skip_value(s, b) == skip_value_loop(skip_ws(s, b), b)

ok_skip_value(s, b) == IF Failed(s) THEN s ELSE skip_value(s, b)

(***************************************************************************)
(* Structured types.  A type is the ordered list of its declared field     *)
(* names (meta_v<T>) and the set of its mandatory fields                   *)
(* (required_fields<T, Opts>()); every field holds an unsigned integer.    *)
(***************************************************************************)
FieldIx(T) == 1..Len(T.names)

\* keys_may_contain_escape<T>() for a structured type
keys_may_contain_escape(names) ==
    \E i \in 1..Len(names) : \E k \in 1..Len(names[i]) :
        \/ names[i][k] = ch.bslash
        \/ names[i][k] = ch.quote
        \/ names[i][k] \div 128 > 0

\* key_stats_t: min_length starts at the greatest uint32_t, which every name
\* length is below; min_set says that a length has replaced it
RECURSIVE key_stats_from(_, _, _)
key_stats_from(stats, names, i) ==
    IF i > Len(names) THEN stats
    ELSE LET n == Len(names[i])
         IN  key_stats_from(
                [min_set |-> TRUE,
                 min_length |-> IF (~stats.min_set) \/ n < stats.min_length
                                THEN n ELSE stats.min_length,
                 max_length |-> IF n > stats.max_length THEN n ELSE stats.max_length],
                names, i + 1)

\* key_stats<T, tag>(): the shortest and the longest declared name (and the tag);
\* with no name and no tag the unsigned difference 0 - max(uint32_t) wraps to 1
key_stats(names, tag) ==
    LET stats0 == IF tag # <<>>
                  THEN [min_set |-> TRUE, min_length |-> Len(tag), max_length |-> Len(tag)]
                  ELSE [min_set |-> FALSE, min_length |-> 0, max_length |-> 0]
        stats == key_stats_from(stats0, names, 1)
    IN  [min_set |-> stats.min_set,
         min_length |-> stats.min_length, max_length |-> stats.max_length,
         length_range |-> IF stats.min_set THEN stats.max_length - stats.min_length ELSE 1]

\* parse_unescaped_key (util/parse.hpp): the bytes up to the next quote
parse_unescaped_key(s, b) ==
    LET r == skip_till_quote(s, b)
    IN  IF Failed(r) THEN [s |-> r, key |-> <<>>]
        ELSE [s |-> Adv(r, 1), key |-> Span(b, s.it, r.it)]

\* for (i = 0; i <= length_range; ++it, ++i) if (*it == '"') ...
RECURSIVE key_scan(_, _, _, _, _)
key_scan(s, b, start, i, range) ==
    IF i > range THEN [s |-> SetErr(s, "key_not_found"), key |-> <<>>]
    ELSE IF At(b, s.it) = ch.quote
         THEN [s |-> Adv(s, 1), key |-> Span(b, start, s.it)]
    ELSE key_scan(Adv(s, 1), b, start, i + 1, range)

\* parse_key_cx<min_length, length_range> (util/parse.hpp): the closing quote
\* is searched in the length_range + 1 bytes after the shortest key
parse_key_cx(s, b, min_length, range) ==
    key_scan(Adv(s, min_length), b, s.it, 0, range)

\* a key parser whose fast paths jump without the test (it + max_length) < end
key_fast_unguarded(s, b, o, stats) ==
    IF stats.length_range < 16 /\ o.error_on_unknown_keys
    THEN IF stats.length_range = 0
         THEN [s |-> match(Adv(s, stats.max_length), b, ch.quote),
               key |-> Span(b, s.it, s.it + stats.max_length)]
         ELSE IF stats.length_range < 4
         THEN key_scan(Adv(s, stats.min_length), b, s.it, 0, stats.length_range)
         ELSE parse_key_cx(s, b, stats.min_length, stats.length_range)
    ELSE parse_unescaped_key(s, b)

\* parse_object_key when the declared names hold no escape: the paths chosen
\* by the compile-time key lengths
key_fast(s, b, o, stats) ==
    IF stats.length_range < 16 /\ o.error_on_unknown_keys
    THEN IF s.it + stats.max_length < Len(b)
         THEN IF stats.length_range = 0
              THEN [s |-> match(Adv(s, stats.max_length), b, ch.quote),
                    key |-> Span(b, s.it, s.it + stats.max_length)]
              ELSE IF stats.length_range < 4
              THEN key_scan(Adv(s, stats.min_length), b, s.it, 0, stats.length_range)
              ELSE parse_key_cx(s, b, stats.min_length, stats.length_range)
         ELSE parse_unescaped_key(s, b)
    ELSE parse_unescaped_key(s, b)

\* parse_object_key when a declared name may hold an escape; s is past the
\* opening quote
key_with_escapes(s, b, o) ==
    LET \* the key is read into string_buffer(), not into the destination
        buffered(k) == [s |-> SetVal(k, s.val), key |-> k.val]
        r == skip_till_escape_or_quote(s, b)
    IN  IF Failed(r) THEN [s |-> r, key |-> <<>>]
        ELSE IF At(b, r.it) = ch.bslash
        THEN buffered(from_json_string(SetVal(Seek(r, s.it), <<>>), b,
                                       [o EXCEPT !.opening_handled = TRUE]))
        ELSE [s |-> Adv(r, 1), key |-> Span(b, s.it, r.it)]

\* parse_object_key<T, Nullables, tag>: the key text and the state past its closing quote
parse_object_key(s, b, o, names, tag) ==
    LET s2 == ok_match(IF o.ws_handled THEN s ELSE skip_ws(s, b), b, ch.quote)
    IN  IF Failed(s2) THEN [s |-> s2, key |-> <<>>]
        ELSE IF keys_may_contain_escape(names) THEN key_with_escapes(s2, b, o)
        ELSE key_fast(s2, b, o, key_stats(names, tag))

\* frozen_map.find(key): the index of the declared field named key
FieldFind(names, key) == {i \in 1..Len(names) : names[i] = key}

\* a member reader that rejects every undeclared key, whatever the options
unknown_member_rejected(s, b, o, tag, key) == SetErr(s, "unknown_key")

\* the member's key is not declared: it is an error, or the value is skipped
unknown_member(s, b, o, tag, key) ==
    IF o.error_on_unknown_keys /\ (tag = <<>> \/ key # tag)
    THEN SetErr(s, "unknown_key")
    ELSE skip_value(s, b)

\* the declared member at index i is read in place; fields[index] = true
read_member(s, b, o, fields, i) ==
    LET assign(r) ==
            [s |-> SetVal(r, [s.val EXCEPT ![i] = r.val]),
             fields |-> IF o.error_on_missing_keys THEN fields \cup {i} ELSE fields]
    IN  assign(from_json_num(SetVal(s, s.val[i]), b,
                             [o EXCEPT !.ws_handled = TRUE, !.opening_handled = FALSE]))

\* the value of the member whose key is k.key, k.s being past the colon
member_value(k, b, o, T, tag, fields) ==
    IF Failed(k.s) THEN [s |-> k.s, fields |-> fields]
    ELSE IF FieldFind(T.names, k.key) # {}
    THEN read_member(k.s, b, o, fields, CHOOSE i \in FieldFind(T.names, k.key) : TRUE)
    ELSE [s |-> unknown_member(k.s, b, o, tag, k.key), fields |-> fields]

\* the member of the object: key, colon, value
obj_member(s, b, o, T, tag, fields) ==
    LET \* skip_ws; match<':'>; skip_ws, each left as soon as the error is set
        colon(k) == [s |-> ok_skip_ws(ok_match(ok_skip_ws(k.s, b), b, ch.colon), b),
                     key |-> k.key]
    IN  IF Failed(s) THEN [s |-> s, fields |-> fields]
        ELSE member_value(colon(parse_object_key(s, b, [o EXCEPT !.ws_handled = TRUE],
                                                 T.names, tag)),
                          b, o, T, tag, fields)

\* a closing brace that never looks at the fields seen
close_object_unchecked(s, o, T, fields) == Adv(s, 1)

\* if (*it == '}') { ++it; ... return; }: the mandatory fields are compared
\* with the fields seen
close_object(s, o, T, fields) ==
    LET s1 == Adv(s, 1)
    IN  IF o.error_on_missing_keys /\ ~(T.required \subseteq fields)
        THEN SetErr(s1, "missing_key")
        ELSE s1

\* while (true) { ... } of the object reader, with the locals `fields` and `first`
RECURSIVE obj_loop(_, _, _, _, _, _, _)
obj_loop(s, b, o, T, tag, fields, first) ==
    LET again(s2, seen) == IF Failed(s2) THEN s2
                           ELSE obj_loop(s2, b, o, T, tag, seen, FALSE)
        after(m) == IF Failed(m.s) THEN m.s ELSE again(skip_ws(m.s, b), m.fields)
    IN  IF Failed(s) THEN s
        ELSE IF At(b, s.it) = ch.rbrace THEN close_object(s, o, T, fields)
        ELSE after(obj_member(IF first THEN s ELSE ok_skip_ws(match(s, b, ch.comma), b),
                              b, o, T, tag, fields))

\* from_json<glaze_object_t>::op<Options, tag>
from_json_object(s, b, o, T, tag) ==
    obj_loop(ok_skip_ws(IF o.opening_handled THEN s
                        ELSE ok_match(IF o.ws_handled THEN s ELSE skip_ws(s, b),
                                      b, ch.lbrace),
                        b),
             b, o, T, tag, {}, TRUE)

(***************************************************************************)
(* Tagged unions.  A union type is the list of its alternatives (each a    *)
(* structured type), its discriminator key tag_v<T> (empty: none) and the  *)
(* identifier of each alternative, ids_v<T>.  A union value is the index   *)
(* of the alternative it holds (from 0) and that alternative's fields.     *)
(***************************************************************************)
AltIx(V) == 0..(Len(V.alts) - 1)

RECURSIVE AllNamesFrom(_, _)
AllNamesFrom(V, i) ==
    IF i > Len(V.alts) THEN <<>> ELSE V.alts[i].names \o AllNamesFrom(V, i + 1)

\* the declared names of all object alternatives: what the union's
\* keys_may_contain_escape and key_stats range over
AllNames(V) == AllNamesFrom(V, 1)

\* deduction_map.find(key): the alternatives that declare key (make_variant_deduction_map)
DeductionFind(V, key) == {i \in AltIx(V) : FieldFind(V.alts[i + 1].names, key) # {}}

\* id_map.find(type_id) (make_variant_id_map)
IdFind(V, type_id) == {i \in AltIx(V) : V.ids[i + 1] = type_id}

\* runtime_variant_map<T>()[type_index]: the default-constructed alternative
DefaultAlt(V, i) == [index |-> i, v |-> [k \in FieldIx(V.alts[i + 1]) |-> 0]]

\* it = start; the union is made to hold alternative type_index, which is then
\* read as an object whose opening brace is consumed
read_alternative(s, b, o, V, start, type_index) ==
    LET value == IF s.val.index # type_index THEN DefaultAlt(V, type_index) ELSE s.val
        held(r) == SetVal(r, [index |-> type_index, v |-> r.val])
    IN  held(from_json_object(SetVal(Seek(s, start), value.v), b,
                              [o EXCEPT !.opening_handled = TRUE],
                              V.alts[type_index + 1], V.tag))

\* the alternative named by the identifier k.id is read from `start`
type_by_id(k, b, o, V, start) ==
    IF Failed(k.s) THEN k.s
    ELSE IF IdFind(V, k.id) # {}
    THEN read_alternative(k.s, b, o, V, start, CHOOSE i \in IdFind(V, k.id) : TRUE)
    ELSE SetErr(k.s, "no_matching_variant_type")

\* the discriminator member: its value names the alternative
read_type_id(s, b, o, V, start) ==
    LET \* the identifier is read into string_buffer(); skip_ws; match<','>
        after(r) == [s |-> ok_match(ok_skip_ws(SetVal(r, s.val), b), b, ch.comma),
                     id |-> r.val]
        str(s2) == IF Failed(s2) THEN [s |-> s2, id |-> <<>>]
                   ELSE after(from_json_string(SetVal(s2, <<>>), b, o))
    IN  type_by_id(str(ok_match(skip_ws(s, b), b, ch.colon)), b, o, V, start)

RECURSIVE deduce_loop(_, _, _, _, _, _)

\* one key of the deduction loop, k.s being past the key k.key; the loop goes
\* on while more than one alternative is possible
narrow_types(k, b, o, V, start, possible_types) ==
    LET deduced == DeductionFind(V, k.key)
        \* possible_types &= deduction_it->second
        possible == IF deduced # {} THEN possible_types \cap deduced ELSE possible_types
        again(s6) == IF Failed(s6) THEN s6
                     ELSE deduce_loop(s6, b, o, V, start, possible)
        \* skip_ws; match<':'>; skip_ws; skip_value; skip_ws
        skipped(s1) ==
            ok_skip_ws(ok_skip_value(ok_skip_ws(ok_match(skip_ws(s1, b), b, ch.colon), b), b), b)
    IN  IF Failed(k.s) THEN k.s
        ELSE IF deduced = {} /\ V.tag # <<>> /\ k.key = V.tag
        THEN read_type_id(k.s, b, o, V, start)
        ELSE IF deduced = {} /\ o.error_on_unknown_keys
        THEN SetErr(k.s, "unknown_key")
        ELSE IF Cardinality(possible) = 0
        THEN SetErr(k.s, "no_matching_variant_type")
        ELSE IF Cardinality(possible) = 1
        THEN read_alternative(k.s, b, o, V, start, CHOOSE i \in possible : TRUE)
        ELSE again(skipped(k.s))

\* a deduction loop that takes the closing brace as the end of a read
deduce_loop_lenient(s, b, o, V, start, possible_types) ==
    LET s1 == IF s.it # start THEN match(s, b, ch.comma) ELSE s
    IN  IF At(b, s.it) = ch.rbrace THEN s
        ELSE IF Failed(s1) THEN s1
        ELSE narrow_types(parse_object_key(s1, b, o, AllNames(V), V.tag),
                          b, o, V, start, possible_types)

\* while (*it != '}') { ... } of key-driven deduction, with the locals
\* `possible_types` and `start`
deduce_loop(s, b, o, V, start, possible_types) ==
    LET s1 == IF s.it # start THEN match(s, b, ch.comma) ELSE s
    IN  IF At(b, s.it) = ch.rbrace THEN SetErr(s, "no_matching_variant_type")
        ELSE IF Failed(s1) THEN s1
        ELSE narrow_types(parse_object_key(s1, b, o, AllNames(V), V.tag),
                          b, o, V, start, possible_types)

\* a union reader that starts with the first alternative as the only candidate
from_json_variant_first_only(s, b, o, V) ==
    LET s1 == IF o.ws_handled THEN s ELSE skip_ws(s, b)
        s2 == skip_ws(Adv(s1, 1), b)
    IN  IF Failed(s1) THEN s1
        ELSE CASE At(b, s1.it) = ch.nul -> SetErr(s1, "unexpected_end")
               [] At(b, s1.it) = ch.lbrace ->
                    IF Failed(s2) THEN s2
                    ELSE deduce_loop(s2, b, [o EXCEPT !.ws_handled = FALSE], V, s2.it, {0})
               [] OTHER -> SetErr(s1, "no_matching_variant_type")

\* from_json<is_variant>::op for an auto-deducible union all of whose
\* alternatives are structured types, at least two of them
from_json_variant(s, b, o, V) ==
    LET s1 == IF o.ws_handled THEN s ELSE skip_ws(s, b)
        s2 == skip_ws(Adv(s1, 1), b)
    IN  IF Failed(s1) THEN s1
        ELSE CASE At(b, s1.it) = ch.nul -> SetErr(s1, "unexpected_end")
               [] At(b, s1.it) = ch.lbrace ->
                    IF Failed(s2) THEN s2
                    ELSE deduce_loop(s2, b, [o EXCEPT !.ws_handled = FALSE], V, s2.it, AltIx(V))
               [] OTHER -> SetErr(s1, "no_matching_variant_type")

(***************************************************************************)
(* Array-shaped readers.  An element is a boolean or an unsigned integer.  *)
(***************************************************************************)
read_element(s, b, o, type) ==
    IF type = "bool" THEN from_json_bool(s, b, o) ELSE from_json_num(s, b, o)

DefaultElement(type) == IF type = "bool" THEN FALSE ELSE 0

\* the scan of number_of_array_elements over its own copy p of the cursor
\* (the `/` case hands a comment to skip_ws; no input here has `/` outside a
\* string)
RECURSIVE count_elements(_, _, _, _)
count_elements(s, b, p, count) ==
    LET c == At(b, p)
    IN  CASE c = ch.comma -> count_elements(s, b, p + 1, count + 1)
          [] c = ch.quote ->
               LET r == skip_string([s EXCEPT !.it = p], b)
               IN  IF Failed(r) THEN [s |-> [s EXCEPT !.err = r.err, !.log = r.log,
                                              !.errat = IF s.log = <<>> THEN s.it ELSE @],
                         n |-> 0]
                   ELSE count_elements(s, b, r.it, count)
          [] c = ch.rbrack -> [s |-> s, n |-> count]
          [] c = ch.nul -> [s |-> SetErr(s, "unexpected_end"), n |-> 0]
          [] OTHER -> count_elements(s, b, p + 1, count)

\* number_of_array_elements: the cursor is passed by value and does not move
number_of_array_elements(s, b) ==
    LET p == skip_ws(s, b).it
    IN  IF At(b, p) = ch.rbrack THEN [s |-> s, n |-> 0]
        ELSE count_elements(s, b, p, 1)

\* value.resize(n)
Resize(v, n, type) == [i \in 1..n |-> IF i <= Len(v) THEN v[i] ELSE DefaultElement(type)]

\* for (auto& x : value) { ... } of the resize-then-fill reader; i counts from 0
RECURSIVE fill_loop(_, _, _, _, _, _)
fill_loop(s, b, o, type, i, n) ==
    LET \* if (i < n - 1) match<','>(ctx, it, end);
        comma(s2) == IF i < n - 1 THEN match(s2, b, ch.comma) ELSE s2
        store(r) == SetVal(r, [s.val EXCEPT ![i + 1] = r.val])
    IN  IF i >= n THEN s
        ELSE fill_loop(comma(skip_ws(store(read_element(SetVal(s, s.val[i + 1]), b, o, type)), b)),
                       b, o, type, i + 1, n)

\* from_json<T>::op for array_t<T> && !emplace_backable<T> && resizeable<T>
from_json_array_resize(s, b, o, type) ==
    LET s2 == ok_match(IF o.ws_handled THEN s ELSE skip_ws(s, b), b, ch.lbrack)
        fill(c) ==
            IF Failed(c.s) THEN c.s
            ELSE match(fill_loop(SetVal(c.s, Resize(c.s.val, c.n, type)), b,
                                 [o EXCEPT !.ws_handled = FALSE], type, 0, c.n),
                       b, ch.rbrack)
    IN  IF Failed(s2) THEN s2 ELSE fill(number_of_array_elements(s2, b))

\* an element separator that takes a comma followed by the closing bracket
\* as the end of the array
after_element_trailing(s, b) ==
    LET s1 == skip_ws(s, b)
        s2 == skip_ws(Adv(s1, 1), b)
    IN  IF Failed(s) THEN [s |-> s, more |-> FALSE]
        ELSE IF At(b, s1.it) = ch.comma
        THEN IF At(b, s2.it) = ch.rbrack THEN [s |-> Adv(s2, 1), more |-> FALSE]
             ELSE [s |-> s2, more |-> TRUE]
        ELSE IF At(b, s1.it) = ch.rbrack THEN [s |-> Adv(s1, 1), more |-> FALSE]
        ELSE [s |-> SetErr(s1, "expected_bracket"), more |-> FALSE]

\* what follows an element of the in-place/growing reader: skip_ws, then a
\* comma (more elements follow), the closing bracket, or expected_bracket
after_element(s, b) ==
    LET s1 == skip_ws(s, b)
    IN  IF Failed(s) THEN [s |-> s, more |-> FALSE]
        ELSE IF At(b, s1.it) = ch.comma THEN [s |-> skip_ws(Adv(s1, 1), b), more |-> TRUE]
        ELSE IF At(b, s1.it) = ch.rbrack THEN [s |-> Adv(s1, 1), more |-> FALSE]
        ELSE [s |-> SetErr(s1, "expected_bracket"), more |-> FALSE]

\* while (it < end) { read(value.emplace_back()); ... } : the element is
\* appended before it is read
RECURSIVE array_growing(_, _, _, _)
array_growing(s, b, o, T) ==
    LET store(r) == SetVal(r, Append(s.val, r.val))
        next(a) == IF ~Failed(a.s) /\ a.more THEN array_growing(a.s, b, o, T) ELSE a.s
    IN  IF ~(s.it < Len(b)) THEN s
        ELSE next(after_element(store(read_element(SetVal(s, DefaultElement(T.elem)), b,
                                                   [o EXCEPT !.ws_handled = TRUE], T.elem)),
                                b))

\* for (size_t i = 0; i < n; ++i) over the elements the container holds, then
\* growing, or exceeded_static_array_size
RECURSIVE array_existing(_, _, _, _, _)
\* the same loop without value.resize(i + 1) at the closing bracket
array_existing_keep(s, b, o, T, i) ==
    LET store(r) == SetVal(r, [s.val EXCEPT ![i + 1] = r.val])
        next(a) == IF Failed(a.s) THEN a.s
                   ELSE IF a.more THEN array_existing(a.s, b, o, T, i + 1)
                   ELSE a.s
    IN  IF i >= Len(s.val)
        THEN IF T.emplace_backable THEN array_growing(s, b, o, T)
             ELSE SetErr(s, "exceeded_static_array_size")
        ELSE next(after_element(store(read_element(SetVal(s, s.val[i + 1]), b,
                                                   [o EXCEPT !.ws_handled = TRUE], T.elem)),
                                b))

array_existing(s, b, o, T, i) ==
    LET store(r) == SetVal(r, [s.val EXCEPT ![i + 1] = r.val])
        next(a) == IF Failed(a.s) THEN a.s
                   ELSE IF a.more THEN array_existing(a.s, b, o, T, i + 1)
                   ELSE IF T.resizeable THEN SetVal(a.s, SubSeq(a.s.val, 1, i + 1))
                   ELSE a.s
    IN  IF i >= Len(s.val)
        THEN IF T.emplace_backable THEN array_growing(s, b, o, T)
             ELSE SetErr(s, "exceeded_static_array_size")
        ELSE next(after_element(store(read_element(SetVal(s, s.val[i + 1]), b,
                                                   [o EXCEPT !.ws_handled = TRUE], T.elem)),
                                b))

\* from_json<T>::op for array_t<T> && (emplace_backable<T> || !resizeable<T>)
\* && !emplaceable<T>
from_json_array(s, b, o, T) ==
    LET s2 == ok_skip_ws(ok_match(IF o.ws_handled THEN s ELSE skip_ws(s, b), b, ch.lbrack), b)
    IN  IF Failed(s2) THEN s2
        ELSE IF At(b, s2.it) = ch.rbrack
        THEN IF T.resizeable THEN SetVal(Adv(s2, 1), <<>>) ELSE Adv(s2, 1)
        ELSE array_existing(s2, b, [o EXCEPT !.ws_handled = FALSE], T, 0)

\* while (true) { V v; read(v); value.emplace(v); ... } of the set reader
RECURSIVE set_loop(_, _, _, _)
set_loop(s, b, o, type) ==
    LET emplace(r) == IF Failed(r) THEN SetVal(r, s.val) ELSE SetVal(r, s.val \cup {r.val})
        again(s2) == IF Failed(s2) THEN s2 ELSE set_loop(s2, b, o, type)
        next(s1) == IF Failed(s1) THEN s1
                    ELSE IF At(b, s1.it) = ch.rbrack THEN Adv(s1, 1)
                    ELSE again(match(s1, b, ch.comma))
    IN  next(ok_skip_ws(emplace(read_element(SetVal(s, DefaultElement(type)), b, o, type)), b))

\* from_json<T>::op for array_t<T> && !emplace_backable<T> && !resizeable<T>
\* && emplaceable<T>
from_json_set(s, b, o, type) ==
    LET s2 == ok_skip_ws(ok_match(IF o.ws_handled THEN s ELSE skip_ws(s, b), b, ch.lbrack), b)
    IN  IF Failed(s2) THEN s2
        ELSE IF At(b, s2.it) = ch.rbrack THEN SetVal(Adv(s2, 1), {})
        ELSE set_loop(SetVal(s2, {}), b, [o EXCEPT !.ws_handled = FALSE], type)

\* the branch of the same loop for sizeof(V) > 8: static thread_local V v;
\* read(v); value.emplace(v);  s.val.v is the thread's v, s.val.value the set
RECURSIVE set_loop_static(_, _, _, _)
set_loop_static(s, b, o, V) ==
    LET emplace(r) == IF Failed(r) THEN SetVal(r, [value |-> s.val.value, v |-> r.val])
                      ELSE SetVal(r, [value |-> s.val.value \cup {r.val}, v |-> r.val])
        again(s2) == IF Failed(s2) THEN s2 ELSE set_loop_static(s2, b, o, V)
        next(s1) == IF Failed(s1) THEN s1
                    ELSE IF At(b, s1.it) = ch.rbrack THEN Adv(s1, 1)
                    ELSE again(match(s1, b, ch.comma))
    IN  next(ok_skip_ws(emplace(from_json_object(SetVal(s, s.val.v), b, o, V, <<>>)), b))

\* from_json<T>::op for a set whose elements are objects of more than 8 bytes
from_json_set_static(s, b, o, V) ==
    LET s2 == ok_skip_ws(ok_match(IF o.ws_handled THEN s ELSE skip_ws(s, b), b, ch.lbrack), b)
        clear(c) == SetVal(c, [c.val EXCEPT !.value = {}])
    IN  IF Failed(s2) THEN s2
        ELSE IF At(b, s2.it) = ch.rbrack THEN clear(Adv(s2, 1))
        ELSE set_loop_static(clear(s2), b, [o EXCEPT !.ws_handled = FALSE], V)

\* one call of the lambda of for_each<N>: a return leaves this call only
tuple_item(s, b, o, types, I) ==
    LET store(r) == SetVal(r, [s.val EXCEPT ![I + 1] = r.val])
        after(s3) == IF Failed(s3) THEN s3 ELSE skip_ws(s3, b)
        item(s2) ==
            IF Failed(s2) THEN s2
            ELSE after(store(read_element(SetVal(s2, s.val[I + 1]), b,
                                          [o EXCEPT !.ws_handled = TRUE], types[I + 1])))
    IN  IF At(b, s.it) = ch.rbrack THEN s
        ELSE item(IF I # 0 THEN ok_skip_ws(match(s, b, ch.comma), b) ELSE s)

RECURSIVE for_each_tuple_item(_, _, _, _, _)
for_each_tuple_item(s, b, o, types, I) ==
    IF I >= Len(types) THEN s
    ELSE for_each_tuple_item(tuple_item(s, b, o, types, I), b, o, types, I + 1)

\* from_json<T>::op for glaze_array_t<T> || tuple_t<T> || is_std_tuple<T>
from_json_tuple(s, b, o, types) ==
    LET s3 == ok_skip_ws(ok_match(IF o.ws_handled THEN s ELSE skip_ws(s, b), b, ch.lbrack), b)
    IN  IF Failed(s3) THEN s3
        ELSE match(for_each_tuple_item(s3, b, o, types, 0), b, ch.rbrack)

\* from_json<basic_raw_json<T>>::op: value.str is the span the skip scanner went over
from_json_raw(s, b, o) ==
    LET span(r) == IF Failed(r) THEN r ELSE SetVal(r, Span(b, s.it, r.it))
    IN  span(skip_value(s, b))

\* read<json>::op: the handler of the destination's shape
read_value(s, b, o, shape) ==
    CASE shape = "string" -> from_json_string(s, b, o)
      [] shape = "raw" -> from_json_raw(s, b, o)
      [] OTHER -> read_element(s, b, o, shape)

\* a value-initialised instance of the inner type
DefaultValue(shape) == IF shape = "string" THEN <<>> ELSE DefaultElement(shape)

\* a nullable reader whose `null` leaves the destination as it was
from_json_nullable_keep(s, b, o, T) ==
    LET s1 == IF o.ws_handled THEN s ELSE skip_ws(s, b)
        inner == IF s1.val = <<>> THEN DefaultValue(T.inner) ELSE s1.val[1]
        hold(r) == SetVal(r, <<r.val>>)
    IN  IF Failed(s1) THEN s1
        ELSE IF At(b, s1.it) = ch.n
        THEN match_str(Adv(s1, 1), b, <<ch.u, ch.l, ch.l>>)
        ELSE IF s1.val = <<>> /\ ~T.constructible
        THEN SetErr(s1, "invalid_nullable_read")
        ELSE hold(read_value(SetVal(s1, inner), b, [o EXCEPT !.ws_handled = FALSE], T.inner))

\* from_json<T>::op for nullable_t<T>; the destination is <<>> when empty and
\* <<v>> when it holds v.  The instance is made before the inner read, so it
\* stays when that read fails.
from_json_nullable(s, b, o, T) ==
    LET s1 == IF o.ws_handled THEN s ELSE skip_ws(s, b)
        inner == IF s1.val = <<>> THEN DefaultValue(T.inner) ELSE s1.val[1]
        hold(r) == SetVal(r, <<r.val>>)
        reset(r) == IF Failed(r) THEN r ELSE SetVal(r, <<>>)
    IN  IF Failed(s1) THEN s1
        ELSE IF At(b, s1.it) = ch.n
        THEN reset(match_str(Adv(s1, 1), b, <<ch.u, ch.l, ch.l>>))
        ELSE IF s1.val = <<>> /\ ~T.constructible
        THEN SetErr(s1, "invalid_nullable_read")
        ELSE hold(read_value(SetVal(s1, inner), b, [o EXCEPT !.ws_handled = FALSE], T.inner))

\* requires(array_t<T> && !emplace_backable<T> && !resizeable<T> && emplaceable<T>)
set_handler_applies(T) == ~T.emplace_backable /\ ~T.resizeable /\ T.emplaceable

\* requires(array_t<T> && (emplace_backable<T> || !resizeable<T>) && !emplaceable<T>)
array_handler_applies(T) == (T.emplace_backable \/ ~T.resizeable) /\ ~T.emplaceable

\* requires array_t<T> && (!emplace_backable<T> && resizeable<T>)
resize_handler_applies(T) == ~T.emplace_backable /\ T.resizeable

\* the from_json specialisations whose constraints an array-shaped T satisfies
ArrayHandlers(T) ==
    {h \in {"set", "array", "resize"} :
        \/ h = "set" /\ set_handler_applies(T)
        \/ h = "array" /\ array_handler_applies(T)
        \/ h = "resize" /\ resize_handler_applies(T)}

\* read<json>::op for an array-shaped T: the one specialisation that applies
read_container(s, b, o, T) ==
    CASE set_handler_applies(T) -> from_json_set(s, b, o, T.elem)
      [] array_handler_applies(T) -> from_json_array(s, b, o, T)
      [] OTHER -> from_json_array_resize(s, b, o, T.elem)

(***************************************************************************)
(* Options.                                                                *)
(***************************************************************************)
DefaultOpts == [force_conformance |-> FALSE, ws_handled |-> FALSE,
                opening_handled |-> FALSE, quoted |-> FALSE,
                error_on_unknown_keys |-> TRUE, error_on_missing_keys |-> FALSE,
                lax_codecvt |-> FALSE]

NoDoc == [members |-> <<>>, whole |-> FALSE]

(***************************************************************************)
(* Generated string inputs: an opening quote, up to MaxTok tokens, a       *)
(* closing quote, and every prefix of such a text.                         *)
(***************************************************************************)
Esc(c) == <<ch.bslash, c>>
U4(h3, h2, h1, h0) == <<ch.bslash, ch.u, h3, h2, h1, h0>>

\* \uD800 and \uD83D
HighEscapes == {U4(ch.uD, ch.d8, ch.d0, ch.d0), U4(ch.uD, ch.d8, ch.d4, ch.uD)}
\* \uDC00 and \uDE01
LowEscapes == {U4(ch.uD, ch.uC, ch.d0, ch.d0), U4(ch.uD, ch.uE, ch.d0, ch.d1)}

\* also A (A), é (two code units) and \u00x1 (not hex)
StrTokens ==
    { <<ch.a>>, <<ch.lf>>, <<ch.sp>>,
      Esc(ch.quote), Esc(ch.bslash), Esc(ch.n), Esc(ch.x),
      U4(ch.d0, ch.d0, ch.d4, ch.d1), U4(ch.d0, ch.d0, ch.uE, ch.d9),
      U4(ch.d0, ch.d0, ch.x, ch.d1) } \cup HighEscapes \cup LowEscapes

RECURSIVE TokSeqs(_, _)
TokSeqs(tokens, n) ==
    IF n = 0 THEN {<<>>}
    ELSE LET shorter == TokSeqs(tokens, n - 1)
         IN  shorter \cup {w \o tk : w \in shorter, tk \in tokens}

Prefixes(w) == {SubSeq(w, 1, k) : k \in 0..Len(w)}

Quoted(w) == <<ch.quote>> \o w \o <<ch.quote>>

QuotedTexts == {Quoted(w) : w \in TokSeqs(StrTokens, MaxTok)}

StrInputs == UNION {Prefixes(w) : w \in QuotedTexts}
               \cup {<<ch.sp>> \o w : w \in QuotedTexts}

(***************************************************************************)
(* The string family: one read of a string.                                *)
(***************************************************************************)
InitStr ==
    /\ pc = "start"
    /\ op = "read_string"
    /\ ty = "string"
    /\ \E fc \in BOOLEAN, lax \in BOOLEAN :
          opts = [DefaultOpts EXCEPT !.force_conformance = fc, !.lax_codecvt = lax]
    /\ doc = NoDoc
    /\ input \in StrInputs
    /\ old \in {<<>>, <<ch.z>>}
    /\ dest = old
    /\ ctx = Ctx0(old)
    /\ sink = NoSink
    /\ resink = NoSink

ReadString ==
    /\ pc = "start" /\ op = "read_string"
    /\ ctx' = from_json_string(Ctx0(dest), input, opts)
    /\ dest' = ctx'.val
    /\ pc' = "done"
    /\ UNCHANGED <<op, ty, opts, doc, input, old, sink, resink>>

NextStr == ReadString

SpecStr == InitStr /\ [][NextStr]_vars

(***************************************************************************)
(* The round-trip family: a value is written, the text is read back into a *)
(* fresh value, and the value read is written again.                       *)
(***************************************************************************)
WriteAlphabet == {ch.quote, ch.bslash, ch.bs, ch.ff, ch.lf, ch.cr, ch.tab,
                  ch.a, ch.n, ch.slash}

RECURSIVE Strings(_)
Strings(n) ==
    IF n = 0 THEN {<<>>}
    ELSE LET shorter == Strings(n - 1)
         IN  shorter \cup {Append(w, c) : w \in shorter, c \in WriteAlphabet}

FlagValues == [FlagIx -> BOOLEAN]

NoFlags == [i \in FlagIx |-> FALSE]

InitRT ==
    /\ pc = "start"
    /\ \/ op = "write_string" /\ ty = "string" /\ old \in Strings(MaxStr)
       \/ op = "write_flags" /\ ty = "flags" /\ old \in FlagValues
    /\ opts = DefaultOpts
    /\ doc = NoDoc
    /\ input = <<>>
    /\ dest = old
    /\ ctx = Ctx0(<<>>)
    /\ \E size \in 0..MaxSize : \E ix \in 0..size : sink = Sink0(size, ix)
    /\ resink = NoSink

WriteString ==
    /\ pc = "start" /\ op = "write_string"
    /\ sink' = to_json_str(sink, dest)
    /\ pc' = "written"
    /\ UNCHANGED <<op, ty, opts, doc, input, old, dest, ctx, resink>>

WriteFlags ==
    /\ pc = "start" /\ op = "write_flags"
    /\ sink' = to_json_flags(sink, dest)
    /\ pc' = "written"
    /\ UNCHANGED <<op, ty, opts, doc, input, old, dest, ctx, resink>>

\* every unchecked write went to an index below the buffer size
InBounds(w) == \A i \in w.unchecked : i < w.size

\* the bytes of an unchecked write past the buffer are no text to read back
ReadBackString ==
    /\ pc = "written" /\ op = "write_string"
    /\ InBounds(sink)
    /\ input' = sink.text
    /\ ctx' = from_json_string(Ctx0(<<>>), sink.text, opts)
    /\ dest' = ctx'.val
    /\ pc' = "read"
    /\ UNCHANGED <<op, ty, opts, doc, old, sink, resink>>

ReadBackFlags ==
    /\ pc = "written" /\ op = "write_flags"
    /\ input' = sink.text
    /\ ctx' = from_json_flags(Ctx0(NoFlags), sink.text, opts)
    /\ dest' = ctx'.val
    /\ pc' = "read"
    /\ UNCHANGED <<op, ty, opts, doc, old, sink, resink>>

RewriteString ==
    /\ pc = "read" /\ op = "write_string"
    /\ resink' = to_json_str(Sink0(DumpInitialSize, 0), dest)
    /\ pc' = "done"
    /\ UNCHANGED <<op, ty, opts, doc, input, old, dest, ctx, sink>>

RewriteFlags ==
    /\ pc = "read" /\ op = "write_flags"
    /\ resink' = to_json_flags(Sink0(DumpInitialSize, 0), dest)
    /\ pc' = "done"
    /\ UNCHANGED <<op, ty, opts, doc, input, old, dest, ctx, sink>>

NextRT == \/ WriteString \/ WriteFlags
          \/ ReadBackString \/ ReadBackFlags
          \/ RewriteString \/ RewriteFlags

SpecRT == InitRT /\ [][NextRT]_vars

(***************************************************************************)
(* Generated objects: up to MaxMembers members, each a key and an unsigned *)
(* integer, rendered compactly or with a space around every token.         *)
(***************************************************************************)
RECURSIVE Digits(_)
Digits(n) == IF n < 10 THEN <<48 + n>> ELSE Digits(n \div 10) \o <<48 + (n % 10)>>

RenderMember(m, spaced) ==
    IF spaced
    THEN Quoted(m.key) \o <<ch.sp, ch.colon, ch.sp>> \o Digits(m.val) \o <<ch.sp>>
    ELSE Quoted(m.key) \o <<ch.colon>> \o Digits(m.val)

RECURSIVE RenderMembers(_, _)
RenderMembers(ms, spaced) ==
    IF ms = <<>> THEN <<>>
    ELSE IF Len(ms) = 1 THEN RenderMember(ms[1], spaced)
    ELSE RenderMember(ms[1], spaced) \o <<ch.comma>>
           \o (IF spaced THEN <<ch.sp>> ELSE <<>>) \o RenderMembers(Tail(ms), spaced)

Render(ms, spaced) ==
    (IF spaced THEN <<ch.sp, ch.lbrace, ch.sp>> ELSE <<ch.lbrace>>)
      \o RenderMembers(ms, spaced) \o <<ch.rbrace>>

MemberValues == {1, 23}

Members(keys) == [key : keys, val : MemberValues]

RECURSIVE MemberSeqs(_, _)
MemberSeqs(keys, n) ==
    IF n = 0 THEN {<<>>}
    ELSE LET shorter == MemberSeqs(keys, n - 1)
         IN  shorter \cup {Append(ms, m) : ms \in shorter, m \in Members(keys)}

RangeOf(seq) == {seq[i] : i \in 1..Len(seq)}

\* the keys of the members of a document
DocKeys(d) == {d.members[i].key : i \in 1..Len(d.members)}

\* the value of the last member of the document with that key
RECURSIVE LastValue(_, _, _)
LastValue(ms, key, default) ==
    IF ms = <<>> THEN default
    ELSE IF ms[Len(ms)].key = key THEN ms[Len(ms)].val
    ELSE LastValue(SubSeq(ms, 1, Len(ms) - 1), key, default)

(***************************************************************************)
(* The object family: one read of an object into a structured type.        *)
(***************************************************************************)
ObjTypes ==
    { [names |-> << <<ch.a>>, <<ch.b>> >>, required |-> {1, 2}],
      [names |-> << <<ch.a>>, <<ch.b, ch.c, ch.d>> >>, required |-> {1}],
      [names |-> << <<ch.a>>, <<ch.b, ch.c, ch.d, ch.e, ch.f>> >>, required |-> {2}] }

\* keys no type declares: shorter than, within and longer than the declared lengths
UnknownKeys == { <<>>, <<ch.c>>, <<ch.c, ch.c>>, <<ch.c, ch.c, ch.c, ch.c, ch.c, ch.c>> }

InitObj ==
    /\ pc = "start"
    /\ op = "read_object"
    /\ ty \in ObjTypes
    /\ \E uk \in BOOLEAN, mk \in BOOLEAN :
          opts = [DefaultOpts EXCEPT !.error_on_unknown_keys = uk, !.error_on_missing_keys = mk]
    /\ \E ms \in MemberSeqs(RangeOf(ty.names) \cup UnknownKeys, MaxMembers), spaced \in BOOLEAN :
          \/ doc = [members |-> ms, whole |-> TRUE] /\ input = Render(ms, spaced)
          \/ /\ Len(ms) <= 1
             /\ doc = [members |-> ms, whole |-> FALSE]
             /\ input \in Prefixes(Render(ms, spaced)) \ {Render(ms, spaced)}
    /\ old = <<5, 6>>
    /\ dest = old
    /\ ctx = Ctx0(old)
    /\ sink = NoSink
    /\ resink = NoSink

ReadObject ==
    /\ pc = "start" /\ op = "read_object"
    /\ ctx' = from_json_object(Ctx0(dest), input, opts, ty, <<>>)
    /\ dest' = ctx'.val
    /\ pc' = "done"
    /\ UNCHANGED <<op, ty, opts, doc, input, old, sink, resink>>

NextObj == ReadObject

SpecObj == InitObj /\ [][NextObj]_vars

(***************************************************************************)
(* The union family: one read of an object into a tagged union without a   *)
(* discriminator.                                                          *)
(***************************************************************************)
Struct(names) == [names |-> names, required |-> {}]

VariantTypes ==
    { [alts |-> <<Struct(<< <<ch.x>> >>), Struct(<< <<ch.y>> >>)>>,
       tag |-> <<>>, ids |-> << <<ch.uA>>, <<ch.uC>> >>],
      [alts |-> <<Struct(<< <<ch.x>>, <<ch.d>> >>), Struct(<< <<ch.y, ch.y>> >>)>>,
       tag |-> <<>>, ids |-> << <<ch.uA>>, <<ch.uC>> >>] }

InitVar ==
    /\ pc = "start"
    /\ op = "read_variant"
    /\ ty \in VariantTypes
    /\ \E uk \in BOOLEAN : opts = [DefaultOpts EXCEPT !.error_on_unknown_keys = uk]
    /\ \E ms \in MemberSeqs(RangeOf(AllNames(ty)) \cup {<<ch.z>>}, MaxMembers), spaced \in BOOLEAN :
          /\ doc = [members |-> ms, whole |-> TRUE]
          /\ input = Render(ms, spaced)
    /\ \E i \in AltIx(ty) : old = [index |-> i, v |-> [k \in FieldIx(ty.alts[i + 1]) |-> 5 + k]]
    /\ dest = old
    /\ ctx = Ctx0(old)
    /\ sink = NoSink
    /\ resink = NoSink

ReadVariant ==
    /\ pc = "start" /\ op = "read_variant"
    /\ ctx' = from_json_variant(Ctx0(dest), input, opts, ty)
    /\ dest' = ctx'.val
    /\ pc' = "done"
    /\ UNCHANGED <<op, ty, opts, doc, input, old, sink, resink>>

NextVar == ReadVariant

SpecVar == InitVar /\ [][NextVar]_vars

(***************************************************************************)
(* The array family: one read of a number, of a resize-only array or of a  *)
(* tuple, from an arbitrary sequence of up to MaxSoup tokens.              *)
(***************************************************************************)
SoupTokens == { <<ch.lbrack>>, <<ch.rbrack>>, <<ch.comma>>, <<ch.quote>>, <<ch.sp>>,
                <<ch.t, ch.r, ch.u, ch.e>>, <<ch.d1>>, <<ch.x>> }

SoupInputs == TokSeqs(SoupTokens, MaxSoup)

TupleTypes == << "bool", "num", "bool" >>

\* sequences of numbers: growable with resize (std::vector), of fixed size
\* (std::array), and growable without resize
ArrayTypes ==
    { [elem |-> "num", emplace_backable |-> TRUE, resizeable |-> TRUE],
      [elem |-> "num", emplace_backable |-> FALSE, resizeable |-> FALSE],
      [elem |-> "num", emplace_backable |-> TRUE, resizeable |-> FALSE] }

InitArr ==
    /\ pc = "start"
    /\ \/ /\ op = "read_num" /\ ty = "num" /\ old = 9
          /\ \E q \in BOOLEAN, w \in BOOLEAN :
                opts = [DefaultOpts EXCEPT !.quoted = q, !.ws_handled = w]
       \/ /\ op = "read_array_resize" /\ ty \in {"bool", "num"}
          /\ old = <<DefaultElement(ty)>>
          /\ opts = DefaultOpts
       \/ /\ op = "read_tuple" /\ ty = TupleTypes
          /\ old = <<FALSE, 9, FALSE>>
          /\ opts = DefaultOpts
       \/ /\ op = "read_array" /\ ty \in ArrayTypes
          /\ old \in {<<9>>, <<9, 9>>}
          /\ opts = DefaultOpts
       \/ /\ op = "read_set" /\ ty = "num"
          /\ old \in {{}, {9}}
          /\ opts = DefaultOpts
    /\ doc = NoDoc
    /\ input \in SoupInputs
    /\ dest = old
    /\ ctx = Ctx0(old)
    /\ sink = NoSink
    /\ resink = NoSink

ReadNum ==
    /\ pc = "start" /\ op = "read_num"
    /\ ctx' = from_json_num(Ctx0(dest), input, opts)
    /\ dest' = ctx'.val
    /\ pc' = "done"
    /\ UNCHANGED <<op, ty, opts, doc, input, old, sink, resink>>

ReadArrayResize ==
    /\ pc = "start" /\ op = "read_array_resize"
    /\ ctx' = from_json_array_resize(Ctx0(dest), input, opts, ty)
    /\ dest' = ctx'.val
    /\ pc' = "done"
    /\ UNCHANGED <<op, ty, opts, doc, input, old, sink, resink>>

ReadTuple ==
    /\ pc = "start" /\ op = "read_tuple"
    /\ ctx' = from_json_tuple(Ctx0(dest), input, opts, ty)
    /\ dest' = ctx'.val
    /\ pc' = "done"
    /\ UNCHANGED <<op, ty, opts, doc, input, old, sink, resink>>

ReadArray ==
    /\ pc = "start" /\ op = "read_array"
    /\ ctx' = from_json_array(Ctx0(dest), input, opts, ty)
    /\ dest' = ctx'.val
    /\ pc' = "done"
    /\ UNCHANGED <<op, ty, opts, doc, input, old, sink, resink>>

ReadSet ==
    /\ pc = "start" /\ op = "read_set"
    /\ ctx' = from_json_set(Ctx0(dest), input, opts, ty)
    /\ dest' = ctx'.val
    /\ pc' = "done"
    /\ UNCHANGED <<op, ty, opts, doc, input, old, sink, resink>>

NextArr == ReadNum \/ ReadArrayResize \/ ReadTuple \/ ReadArray \/ ReadSet

SpecArr == InitArr /\ [][NextArr]_vars

(***************************************************************************)
(* The discriminated-union family: one read of an object that carries the  *)
(* discriminator member, placed before, between or after up to MaxMembers  *)
(* numeric members.                                                        *)
(***************************************************************************)
TagMember(tag, id, spaced) ==
    IF spaced
    THEN Quoted(tag) \o <<ch.sp, ch.colon, ch.sp>> \o Quoted(id) \o <<ch.sp>>
    ELSE Quoted(tag) \o <<ch.colon>> \o Quoted(id)

InsertAt(seq, p, x) == SubSeq(seq, 1, p) \o <<x>> \o SubSeq(seq, p + 1, Len(seq))

RECURSIVE JoinMembers(_, _)
JoinMembers(texts, spaced) ==
    IF Len(texts) = 1 THEN texts[1]
    ELSE texts[1] \o <<ch.comma>> \o (IF spaced THEN <<ch.sp>> ELSE <<>>)
           \o JoinMembers(Tail(texts), spaced)

\* the object of the members ms with the discriminator member after the first p of them
RenderTagged(ms, p, tag, id, spaced) ==
    (IF spaced THEN <<ch.sp, ch.lbrace, ch.sp>> ELSE <<ch.lbrace>>)
      \o JoinMembers(InsertAt([i \in 1..Len(ms) |-> RenderMember(ms[i], spaced)], p,
                              TagMember(tag, id, spaced)), spaced)
      \o <<ch.rbrace>>

TaggedTypes ==
    { [alts |-> <<Struct(<< <<ch.x>> >>), Struct(<< <<ch.y>> >>)>>,
       tag |-> <<ch.t>>, ids |-> << <<ch.uA>>, <<ch.uC>> >>],
      [alts |-> <<Struct(<< <<ch.x>>, <<ch.d>> >>), Struct(<< <<ch.x>>, <<ch.y>> >>)>>,
       tag |-> <<ch.t>>, ids |-> << <<ch.uA>>, <<ch.uC>> >>] }

\* an identifier no union declares
UnknownId == <<ch.uE>>

InitTag ==
    /\ pc = "start"
    /\ op = "read_variant"
    /\ ty \in TaggedTypes
    /\ \E uk \in BOOLEAN : opts = [DefaultOpts EXCEPT !.error_on_unknown_keys = uk]
    /\ \E ms \in MemberSeqs(RangeOf(AllNames(ty)), MaxMembers), spaced \in BOOLEAN,
          id \in RangeOf(ty.ids) \cup {UnknownId} :
          \E p \in 0..Len(ms) :
             /\ doc = [members |-> ms, whole |-> TRUE, at |-> p, id |-> id]
             /\ input = RenderTagged(ms, p, ty.tag, id, spaced)
    /\ \E i \in AltIx(ty) : old = [index |-> i, v |-> [k \in FieldIx(ty.alts[i + 1]) |-> 5 + k]]
    /\ dest = old
    /\ ctx = Ctx0(old)
    /\ sink = NoSink
    /\ resink = NoSink

SpecTag == InitTag /\ [][NextVar]_vars

(***************************************************************************)
(* The whitespace family: a valid document is read alone, then again with  *)
(* up to MaxPad whitespace characters in front of it.                      *)
(***************************************************************************)
True == <<ch.t, ch.r, ch.u, ch.e>>

\* the valid documents of each shape
Documents(shape) ==
    CASE shape = "bool" -> {True, <<ch.f, ch.a, ch.l, ch.s, ch.e>>}
      [] shape = "num" -> {<<ch.d1>>, <<ch.d2, ch.d5>>}
      [] shape = "string" -> {Quoted(<<>>), Quoted(<<ch.a>>)}
      [] shape = "raw" -> {<<ch.d1>>, True, Quoted(<<ch.a>>), <<ch.lbrack, ch.d1, ch.rbrack>>,
                           <<ch.lbrace, ch.rbrace>>}

Pads == TokSeqs({<<ch.sp>>, <<ch.tab>>, <<ch.lf>>, <<ch.cr>>}, MaxPad)

InitWs ==
    /\ pc = "start"
    /\ op = "read_padded"
    /\ ty \in {"bool", "num", "string", "raw"}
    /\ opts = DefaultOpts
    /\ \E pad \in Pads : doc = [members |-> <<>>, whole |-> TRUE, pad |-> pad]
    /\ input \in Documents(ty)
    /\ old = IF ty \in {"string", "raw"} THEN <<ch.z>> ELSE DefaultElement(ty)
    /\ dest = old
    /\ ctx = Ctx0(old)
    /\ sink = NoSink
    /\ resink = NoSink

\* the document alone is read into the destination
ReadDocument ==
    /\ pc = "start" /\ op = "read_padded"
    /\ ctx' = read_value(Ctx0(old), input, opts, ty)
    /\ dest' = ctx'.val
    /\ pc' = "plain"
    /\ UNCHANGED <<op, ty, opts, doc, input, old, sink, resink>>

\* a second call reads the padded document into a destination of its own, ctx.val
ReadPadded ==
    /\ pc = "plain" /\ op = "read_padded"
    /\ input' = doc.pad \o input
    /\ ctx' = read_value(Ctx0(old), input', opts, ty)
    /\ pc' = "padded"
    /\ UNCHANGED <<op, ty, opts, doc, old, dest, sink, resink>>

NextWs == ReadDocument \/ ReadPadded

SpecWs == InitWs /\ [][NextWs]_vars

(***************************************************************************)
(* The whole program.                                                      *)
(***************************************************************************)
(***************************************************************************)
(* The nullable family: one read into an optional-like destination that    *)
(* is empty or holds a value, from up to MaxNull tokens.                   *)
(***************************************************************************)
NullTokens == { <<ch.n, ch.u, ch.l, ch.l>>, <<ch.n, ch.u>>, <<ch.t, ch.r, ch.u, ch.e>>,
                <<ch.d1>>, <<ch.sp>>, <<ch.quote>>, <<ch.a>> }

NullInputs == TokSeqs(NullTokens, MaxNull)

\* inner shapes; constructible: an empty destination can be given an instance
\* (std::optional, std::unique_ptr, std::shared_ptr, constructible<T>)
NullableTypes ==
    [inner : {"bool", "num", "string"}, constructible : BOOLEAN]

HeldValue(shape) ==
    CASE shape = "bool" -> TRUE
      [] shape = "num" -> 9
      [] OTHER -> <<ch.z>>

InitNull ==
    /\ pc = "start"
    /\ op = "read_nullable"
    /\ ty \in NullableTypes
    /\ \E w \in BOOLEAN : opts = [DefaultOpts EXCEPT !.ws_handled = w]
    /\ old \in {<<>>, <<HeldValue(ty.inner)>>}
    /\ doc = NoDoc
    /\ input \in NullInputs
    /\ dest = old
    /\ ctx = Ctx0(old)
    /\ sink = NoSink
    /\ resink = NoSink

ReadNullable ==
    /\ pc = "start" /\ op = "read_nullable"
    /\ ctx' = from_json_nullable(Ctx0(dest), input, opts, ty)
    /\ dest' = ctx'.val
    /\ pc' = "done"
    /\ UNCHANGED <<op, ty, opts, doc, input, old, sink, resink>>

NextNull == ReadNullable

SpecNull == InitNull /\ [][NextNull]_vars

(***************************************************************************)
(* The container family: an array-shaped type with any combination of the  *)
(* three capabilities, read from up to MaxCap tokens.  A type for which    *)
(* not exactly one specialisation is viable does not compile, so there is  *)
(* no read to perform.                                                     *)
(***************************************************************************)
ContainerTypes ==
    [elem : {"num"}, emplace_backable : BOOLEAN, resizeable : BOOLEAN, emplaceable : BOOLEAN]

InitCap ==
    /\ pc = "start"
    /\ op = "read_container"
    /\ ty \in ContainerTypes
    /\ opts = DefaultOpts
    /\ old = IF set_handler_applies(ty) THEN {9} ELSE <<9>>
    /\ doc = NoDoc
    /\ input \in TokSeqs(SoupTokens, MaxCap)
    /\ dest = old
    /\ ctx = Ctx0(old)
    /\ sink = NoSink
    /\ resink = NoSink

ReadContainer ==
    /\ pc = "start" /\ op = "read_container"
    /\ Cardinality(ArrayHandlers(ty)) = 1
    /\ ctx' = read_container(Ctx0(dest), input, opts, ty)
    /\ dest' = ctx'.val
    /\ pc' = "done"
    /\ UNCHANGED <<op, ty, opts, doc, input, old, sink, resink>>

NextCap == ReadContainer

SpecCap == InitCap /\ [][NextCap]_vars

(***************************************************************************)
(* The escape family: hex4_to_char32 applied to four hexadecimal digits,   *)
(* and one read of a character or of a string.                             *)
(***************************************************************************)
HexDigits == (48..57) \cup (65..70) \cup (97..102)

InitHex ==
    /\ pc = "start"
    /\ \/ /\ op = "hex4" /\ ty = "char32"
          /\ input \in [1..4 -> HexDigits]
          /\ old = 0
          /\ opts = DefaultOpts
       \/ /\ op = "read_char" /\ ty = "char"
          /\ input \in StrInputs
          /\ old = ch.z
          /\ \E lax \in BOOLEAN : opts = [DefaultOpts EXCEPT !.lax_codecvt = lax]
    /\ doc = NoDoc
    /\ dest = old
    /\ ctx = Ctx0(old)
    /\ sink = NoSink
    /\ resink = NoSink

\* the guard of read_escaped_unicode holds for the four digits
Hex4ToChar32 ==
    /\ pc = "start" /\ op = "hex4"
    /\ \A k \in 0..3 : isxdigit(At(input, k))
    /\ ctx' = SetVal(Ctx0(dest), hex4_to_char32(input, 0))
    /\ dest' = ctx'.val
    /\ pc' = "done"
    /\ UNCHANGED <<op, ty, opts, doc, input, old, sink, resink>>

ReadChar ==
    /\ pc = "start" /\ op = "read_char"
    /\ ctx' = from_json_char(Ctx0(dest), input, opts)
    /\ dest' = ctx'.val
    /\ pc' = "done"
    /\ UNCHANGED <<op, ty, opts, doc, input, old, sink, resink>>

NextHex == Hex4ToChar32 \/ ReadChar \/ ReadString

SpecHex == (InitHex \/ InitStr) /\ [][NextHex]_vars

(***************************************************************************)
(* The counting family: number_of_array_elements on a well-formed array    *)
(* of up to MaxElems elements, the cursor just after the opening bracket.  *)
(***************************************************************************)
\* 1, ",", "]", [], [1,1] and {"a":1}
ElementTexts ==
    { <<ch.d1>>,
      <<ch.quote, ch.comma, ch.quote>>,
      <<ch.quote, ch.rbrack, ch.quote>>,
      <<ch.lbrack, ch.rbrack>>,
      <<ch.lbrack, ch.d1, ch.comma, ch.d1, ch.rbrack>>,
      <<ch.lbrace, ch.quote, ch.a, ch.quote, ch.colon, ch.d1, ch.rbrace>> }

ElementSeqs == UNION {[1..n -> ElementTexts] : n \in 0..MaxElems}

RECURSIVE JoinElements(_)
JoinElements(es) ==
    IF es = <<>> THEN <<>>
    ELSE IF Len(es) = 1 THEN es[1]
    ELSE es[1] \o <<ch.comma>> \o JoinElements(Tail(es))

ArrayText(es) == <<ch.lbrack>> \o JoinElements(es) \o <<ch.rbrack>>

InitCount ==
    /\ pc = "start"
    /\ op = "count"
    /\ ty = "num"
    /\ opts = DefaultOpts
    /\ \E es \in ElementSeqs :
          /\ doc = [members |-> es, whole |-> TRUE]
          /\ input = ArrayText(es)
    /\ old = 0
    /\ dest = old
    /\ ctx = Adv(Ctx0(old), 1)
    /\ sink = NoSink
    /\ resink = NoSink

\* const auto n = number_of_array_elements<Opts>(ctx, it, end);
CountElements ==
    /\ pc = "start" /\ op = "count"
    /\ ctx' = SetVal(number_of_array_elements(ctx, input).s, number_of_array_elements(ctx, input).n)
    /\ dest' = ctx'.val
    /\ pc' = "done"
    /\ UNCHANGED <<op, ty, opts, doc, input, old, sink, resink>>

NextCount == CountElements

SpecCount == InitCount /\ [][NextCount]_vars

(***************************************************************************)
(* The sequence family: the in-place/growing array reader on a well-formed *)
(* array of 1..MaxElems numbers, the destination holding 0..MaxElems       *)
(* elements before the read.                                               *)
(***************************************************************************)
\* 1, 25 and 4 between spaces
NumberTexts == { <<ch.d1>>, <<ch.d2, ch.d5>>, <<ch.sp, ch.d4, ch.sp>> }

NumberSeqs == UNION {[1..k -> NumberTexts] : k \in 1..MaxElems}

InitSeq ==
    /\ pc = "start"
    /\ op = "read_array"
    /\ ty \in ArrayTypes
    /\ opts = DefaultOpts
    /\ \E es \in NumberSeqs :
          /\ doc = [members |-> es, whole |-> TRUE]
          /\ input = ArrayText(es)
    /\ \E n \in 0..MaxElems : old = [i \in 1..n |-> 9]
    /\ dest = old
    /\ ctx = Ctx0(old)
    /\ sink = NoSink
    /\ resink = NoSink

SpecSeq == InitSeq /\ [][ReadArray]_vars

(***************************************************************************)
(* The set family: the set reader on a well-formed array of 1..MaxElems    *)
(* objects with the members a and b.  dest.value is the set, dest.v the    *)
(* thread's static element, fresh or as an earlier call left it.           *)
(***************************************************************************)
\* {"a":1,"b":2}, {"a":4}, {"b":5} and {}
ObjectTexts ==
    { <<ch.lbrace, ch.quote, ch.a, ch.quote, ch.colon, ch.d1, ch.comma,
        ch.quote, ch.b, ch.quote, ch.colon, ch.d2, ch.rbrace>>,
      <<ch.lbrace, ch.quote, ch.a, ch.quote, ch.colon, ch.d4, ch.rbrace>>,
      <<ch.lbrace, ch.quote, ch.b, ch.quote, ch.colon, ch.d5, ch.rbrace>>,
      <<ch.lbrace, ch.rbrace>> }

ObjectSeqs == UNION {[1..k -> ObjectTexts] : k \in 1..MaxElems}

SetElement == [names |-> << <<ch.a>>, <<ch.b>> >>, required |-> {}]

InitSet ==
    /\ pc = "start"
    /\ op = "read_set_static"
    /\ ty = SetElement
    /\ opts = DefaultOpts
    /\ \E es \in ObjectSeqs :
          /\ doc = [members |-> es, whole |-> TRUE]
          /\ input = ArrayText(es)
    /\ \E value \in {{}, {<<9, 9>>}}, v \in {<<0, 0>>, <<8, 9>>} :
          old = [value |-> value, v |-> v]
    /\ dest = old
    /\ ctx = Ctx0(old)
    /\ sink = NoSink
    /\ resink = NoSink

ReadSetStatic ==
    /\ pc = "start" /\ op = "read_set_static"
    /\ ctx' = from_json_set_static(Ctx0(dest), input, opts, ty)
    /\ dest' = ctx'.val
    /\ pc' = "done"
    /\ UNCHANGED <<op, ty, opts, doc, input, old, sink, resink>>

NextSet == ReadSetStatic

SpecSet == InitSet /\ [][NextSet]_vars

(***************************************************************************)
(* The string-like family: one quoted text of up to MaxTok tokens read     *)
(* into a string, a string view or a character array of 3 characters,      *)
(* with force_conformance on or off.                                       *)
(***************************************************************************)
LikeTypes ==
    { [k |-> "string", size |-> 0], [k |-> "str_view", size |-> 0],
      [k |-> "char_array", size |-> 3] }

LikeTexts == {Quoted(w) : w \in TokSeqs({<<ch.a>>, <<ch.b>>, <<ch.sp>>, Esc(ch.n)}, MaxTok)}

read_like(s, b, o, T) ==
    CASE T.k = "string" -> from_json_string(s, b, o)
      [] T.k = "str_view" -> from_json_str_view(s, b, o)
      [] T.k = "char_array" -> from_json_char_array(s, b, o)

InitLike ==
    /\ pc = "start"
    /\ op = "read_like"
    /\ ty \in LikeTypes
    /\ \E fc \in BOOLEAN : opts = [DefaultOpts EXCEPT !.force_conformance = fc]
    /\ doc = NoDoc
    /\ input \in LikeTexts
    /\ old = IF ty.k = "char_array" THEN [i \in 1..ty.size |-> IF i = 1 THEN ch.z ELSE ch.nul]
             ELSE <<ch.z>>
    /\ dest = old
    /\ ctx = Ctx0(old)
    /\ sink = NoSink
    /\ resink = NoSink

ReadLike ==
    /\ pc = "start" /\ op = "read_like"
    /\ ctx' = read_like(Ctx0(dest), input, opts, ty)
    /\ dest' = ctx'.val
    /\ pc' = "done"
    /\ UNCHANGED <<op, ty, opts, doc, input, old, sink, resink>>

NextLike == ReadLike

SpecLike == InitLike /\ [][NextLike]_vars

(***************************************************************************)
(* The scalar-union family: an auto-deducible union whose alternatives are *)
(* a number and/or a nullable number (std::variant<uint64_t,               *)
(* std::optional<uint64_t>>), read from null, a number or a malformed      *)
(* token.  The value is [index, v], v the numbers the alternative holds:   *)
(* <<n>> for the number alternative, <<>> or <<n>> for the nullable one.   *)
(***************************************************************************)
\* variant_types<T>: the index of the first alternative of a kind, or -1
FirstAlt(V, kind) ==
    IF \E i \in 1..Len(V) : V[i] = kind
    THEN (CHOOSE i \in 1..Len(V) : V[i] = kind /\ \A j \in 1..(i - 1) : V[j] # kind) - 1
    ELSE -1

\* if (!std::holds_alternative<V>(value)) value = V{};
HoldAlternative(s, i, default) ==
    IF s.val.index = i THEN s ELSE SetVal(s, [index |-> i, v |-> default])

\* from_json<is_variant>::op on the branches for null and for numbers; the
\* union has no boolean, string, object or array alternative
from_json_variant_scalar(s, b, o, V) ==
    LET s1 == IF o.ws_handled THEN s ELSE skip_ws(s, b)
        c == At(b, s1.it)
        store(r, i) == SetVal(r, [index |-> i, v |-> <<r.val>>])
        number(s2, i) == store(from_json_num(SetVal(s2, s2.val.v[1]), b,
                                             [o EXCEPT !.ws_handled = TRUE]), i)
    IN  IF Failed(s1) THEN s1
        ELSE CASE c = ch.nul -> SetErr(s1, "unexpected_end")
               [] c \in {ch.lbrace, ch.lbrack, ch.quote, ch.t, ch.f} ->
                    SetErr(s1, "no_matching_variant_type")
               [] c = ch.n ->
                    IF FirstAlt(V, "opt") < 0 THEN SetErr(s1, "no_matching_variant_type")
                    ELSE match_str(HoldAlternative(s1, FirstAlt(V, "opt"), <<>>), b,
                                   <<ch.n, ch.u, ch.l, ch.l>>)
               [] OTHER ->
                    IF FirstAlt(V, "num") < 0 THEN SetErr(s1, "no_matching_variant_type")
                    ELSE number(HoldAlternative(s1, FirstAlt(V, "num"), <<0>>), FirstAlt(V, "num"))

ScalarUnions == { <<"num", "opt">>, <<"opt", "num">>, <<"num">>, <<"opt">> }

UnionValues(V) ==
    {[index |-> i - 1, v |-> IF V[i] = "num" THEN <<5>> ELSE <<>>] : i \in 1..Len(V)}
        \cup {[index |-> i - 1, v |-> <<9>>] : i \in {j \in 1..Len(V) : V[j] = "opt"}}

InitUnion ==
    /\ pc = "start"
    /\ op = "read_union"
    /\ ty \in ScalarUnions
    /\ \E w \in BOOLEAN : opts = [DefaultOpts EXCEPT !.ws_handled = w]
    /\ old \in UnionValues(ty)
    /\ doc = NoDoc
    /\ input \in NullInputs
    /\ dest = old
    /\ ctx = Ctx0(old)
    /\ sink = NoSink
    /\ resink = NoSink

ReadUnion ==
    /\ pc = "start" /\ op = "read_union"
    /\ ctx' = from_json_variant_scalar(Ctx0(dest), input, opts, ty)
    /\ dest' = ctx'.val
    /\ pc' = "done"
    /\ UNCHANGED <<op, ty, opts, doc, input, old, sink, resink>>

NextUnion == ReadUnion

SpecUnion == InitUnion /\ [][NextUnion]_vars

(***************************************************************************)
(* The key family: parse_object_key at a quoted key, for types whose       *)
(* declared name lengths select each of its paths.                         *)
(***************************************************************************)
\* what follows the key: a number member, a string member, spaces
KeyTails ==
    { <<ch.colon, ch.d1, ch.rbrace>>,
      <<ch.colon, ch.quote, ch.b, ch.quote, ch.rbrace>>,
      <<ch.sp, ch.colon, ch.sp, ch.d1, ch.rbrace>> }

InitKey ==
    /\ pc = "start"
    /\ op = "parse_key"
    /\ ty \in ObjTypes
    /\ \E uk \in BOOLEAN : opts = [DefaultOpts EXCEPT !.error_on_unknown_keys = uk]
    /\ \E key \in RangeOf(ty.names) \cup UnknownKeys, tail \in KeyTails :
          /\ doc = [members |-> <<[key |-> key, val |-> 1]>>, whole |-> TRUE]
          /\ input = Quoted(key) \o tail
    /\ old = <<>>
    /\ dest = old
    /\ ctx = Ctx0(old)
    /\ sink = NoSink
    /\ resink = NoSink

\* const sv key = parse_object_key<T, Nullables, tag>(ctx, it, end);
ParseKey ==
    /\ pc = "start" /\ op = "parse_key"
    /\ ctx' = SetVal(parse_object_key(Ctx0(dest), input, opts, ty.names, <<>>).s,
                     parse_object_key(Ctx0(dest), input, opts, ty.names, <<>>).key)
    /\ dest' = ctx'.val
    /\ pc' = "done"
    /\ UNCHANGED <<op, ty, opts, doc, input, old, sink, resink>>

NextKey == ParseKey

SpecKey == InitKey /\ [][NextKey]_vars

(***************************************************************************)
(* The deduction family: one read of an object into a union of three       *)
(* structured alternatives that share field names, without discriminator.  *)
(***************************************************************************)
\* {x, d}, {x, y} and {z}
DeductionTypes ==
    { [alts |-> <<Struct(<< <<ch.x>>, <<ch.d>> >>), Struct(<< <<ch.x>>, <<ch.y>> >>),
                  Struct(<< <<ch.z>> >>)>>,
       tag |-> <<>>, ids |-> << <<ch.uA>>, <<ch.uC>>, <<ch.uD>> >>] }

InitDed ==
    /\ pc = "start"
    /\ op = "read_variant"
    /\ ty \in DeductionTypes
    /\ \E uk \in BOOLEAN : opts = [DefaultOpts EXCEPT !.error_on_unknown_keys = uk]
    /\ \E ms \in MemberSeqs(RangeOf(AllNames(ty)) \cup {<<ch.c>>}, MaxMembers), spaced \in BOOLEAN :
          /\ doc = [members |-> ms, whole |-> TRUE]
          /\ input = Render(ms, spaced)
    /\ \E i \in AltIx(ty) : old = [index |-> i, v |-> [k \in FieldIx(ty.alts[i + 1]) |-> 5 + k]]
    /\ dest = old
    /\ ctx = Ctx0(old)
    /\ sink = NoSink
    /\ resink = NoSink

SpecDed == InitDed /\ [][NextVar]_vars

(***************************************************************************)
(* Compound writers.  A value is a record with its shape k and its content *)
(* v: "num" (a number), "opt" (<<>> when empty, <<x>> when it holds x),    *)
(* "array" and "tuple" (the elements), "map" (the pairs in iteration       *)
(* order), "object" (the member values, with the declared names) and       *)
(* "variant" (the held alternative, with the union's tag and the           *)
(* alternative's id).  The writer state c is the sink w and the context's  *)
(* indentation_level.                                                      *)
(***************************************************************************)
WriteOpts == [prettify |-> FALSE, indentation_width |-> 3, indentation_char |-> ch.sp,
              skip_null_members |-> TRUE, write_type_info |-> TRUE,
              opening_handled |-> FALSE]

\* dump<...>(b, ix)
Put(c, bytes) == [c EXCEPT !.w = dump(@, bytes)]

\* dump<'\n'>; dumpn<Opts.indentation_char>(ctx.indentation_level, ...)
NewLine(c, o) == Put(c, <<ch.lf>> \o [i \in 1..c.level |-> o.indentation_char])

\* dump<','>, and with prettify the new line
Separator(c, o) == IF o.prettify THEN NewLine(Put(c, <<ch.comma>>), o) ELSE Put(c, <<ch.comma>>)

\* ctx.indentation_level += Opts.indentation_width; new line
Indent(c, o) == NewLine([c EXCEPT !.level = @ + o.indentation_width], o)

\* ctx.indentation_level -= Opts.indentation_width; new line
Unindent(c, o) == NewLine([c EXCEPT !.level = @ - o.indentation_width], o)

\* null_t<T>, and bool(value) of such a value
null_t(x) == x.k = "opt"
HoldsValue(x) == x.v # <<>>

RECURSIVE write_json(_, _, _)

\* to_json<num_t>::op, the digits by write_chars::op
to_json_num(c, o, n) == Put(c, Digits(n))

\* to_json<nullable_t>::op
to_json_nullable(c, o, value) ==
    IF value # <<>> THEN write_json(c, o, value[1]) ELSE Put(c, <<ch.n, ch.u, ch.l, ch.l>>)

\* for (; it != end; ++it) of the array writer
RECURSIVE array_rest(_, _, _, _)
array_rest(c, o, value, i) ==
    IF i > Len(value) THEN c
    ELSE array_rest(write_json(Separator(c, o), o, value[i]), o, value, i + 1)

\* to_json<array_t>::op
to_json_array(c, o, value) ==
    LET c1 == Put(c, <<ch.lbrack>>)
        c2 == IF o.prettify THEN Indent(c1, o) ELSE c1
        close(c3) == IF o.prettify THEN Unindent(c3, o) ELSE c3
    IN  Put(IF value # <<>>
            THEN close(array_rest(write_json(c2, o, value[1]), o, value, 2))
            ELSE c2,
            <<ch.rbrack>>)

\* write_pair of the map writer, the keys being strings
write_pair(c, o, pair) ==
    LET c1 == Put([c EXCEPT !.w = to_json_str(@, pair.first)], <<ch.colon>>)
    IN  write_json(IF o.prettify THEN Put(c1, <<ch.sp>>) ELSE c1, o, pair.second)

\* for (; it != end; ++it) of the map writer
RECURSIVE map_rest(_, _, _, _)
map_rest(c, o, value, i) ==
    IF i > Len(value) THEN c
    ELSE IF null_t(value[i].second) /\ o.skip_null_members /\ ~HoldsValue(value[i].second)
    THEN map_rest(c, o, value, i + 1)
    ELSE map_rest(write_pair(Separator(c, o), o, value[i]), o, value, i + 1)

\* to_json<map_t>::op
to_json_map(c, o, value) ==
    LET c1 == Put(c, <<ch.lbrace>>)
        c2 == IF o.prettify THEN Indent(c1, o) ELSE c1
        close(c3) == IF o.prettify THEN Unindent(c3, o) ELSE c3
    IN  Put(IF value # <<>>
            THEN close(map_rest(write_pair(c2, o, value[1]), o, value, 2))
            ELSE c2,
            <<ch.rbrace>>)

\* for_each<N> of the tuple writer; I counts from 0
RECURSIVE tuple_items(_, _, _, _)
tuple_items(c, o, value, I) ==
    LET comma(c1) == IF I < Len(value) - 1 THEN Separator(c1, o) ELSE c1
    IN  IF I >= Len(value) THEN c
        ELSE tuple_items(comma(write_json(c, o, value[I + 1])), o, value, I + 1)

\* to_json<T>::op for glaze_array_t<T> || tuple_t<T>
to_json_tuple(c, o, value) ==
    LET c1 == Put(c, <<ch.lbrack>>)
        c2 == IF Len(value) > 0 /\ o.prettify THEN Indent(c1, o) ELSE c1
        close(c3) == IF Len(value) > 0 /\ o.prettify THEN Unindent(c3, o) ELSE c3
    IN  Put(close(tuple_items(c2, o, value, 0)), <<ch.rbrack>>)

\* for_each<N> of the object writer, with the local `first`; I counts from 0
RECURSIVE object_members(_, _, _, _, _)
object_members(c, o, value, I, first) ==
    LET member == value.v[I + 1]
        c1 == IF first THEN c ELSE Separator(c, o)
        key == <<ch.quote>> \o value.names[I + 1]
                 \o (IF o.prettify THEN <<ch.quote, ch.colon, ch.sp>> ELSE <<ch.quote, ch.colon>>)
    IN  IF I >= Len(value.v) THEN c
        ELSE IF null_t(member) /\ o.skip_null_members /\ ~HoldsValue(member)
        THEN object_members(c, o, value, I + 1, first)
        ELSE object_members(write_json(Put(c1, key), o, member), o, value, I + 1, FALSE)

\* to_json<T>::op for glaze_object_t<T>
to_json_object(c, o, value) ==
    LET c1 == IF o.opening_handled THEN c
              ELSE IF o.prettify THEN Indent(Put(c, <<ch.lbrace>>), o)
              ELSE Put(c, <<ch.lbrace>>)
        close(c3) == IF o.prettify THEN Unindent(c3, o) ELSE c3
    IN  Put(close(object_members(c1, [o EXCEPT !.opening_handled = FALSE], value, 0, TRUE)),
            <<ch.rbrace>>)

\* to_json<is_variant>::op: with write_type_info the discriminator member is
\* written first and the object follows with its opening handled
to_json_variant(c, o, value) ==
    LET c1 == Put(NewLine([Put(c, <<ch.lbrace>>) EXCEPT !.level = @ + o.indentation_width], o),
                  <<ch.quote>> \o value.tag \o <<ch.quote, ch.colon, ch.sp, ch.quote>>
                    \o value.id \o <<ch.quote>>)
        pretty == NewLine(Put(c1, <<ch.comma>>), o)
        plain == Put(c, <<ch.lbrace, ch.quote>> \o value.tag \o <<ch.quote, ch.colon, ch.quote>>
                          \o value.id \o <<ch.quote, ch.comma>>)
    IN  IF o.write_type_info /\ value.tag # <<>> /\ value.v.k = "object"
        THEN write_json(IF o.prettify THEN pretty ELSE plain,
                        [o EXCEPT !.opening_handled = TRUE], value.v)
        ELSE write_json(c, o, value.v)

\* write<json>::op: the writer of the value's shape
write_json(c, o, x) ==
    CASE x.k = "num" -> to_json_num(c, o, x.v)
      [] x.k = "opt" -> to_json_nullable(c, o, x.v)
      [] x.k = "array" -> to_json_array(c, o, x.v)
      [] x.k = "map" -> to_json_map(c, o, x.v)
      [] x.k = "tuple" -> to_json_tuple(c, o, x.v)
      [] x.k = "object" -> to_json_object(c, o, x)
      [] x.k = "variant" -> to_json_variant(c, o, x)

(***************************************************************************)
(* The writer family: one write of a compound value of up to MaxWr         *)
(* elements, pairs or members.  ctx.val is the context's                   *)
(* indentation_level.                                                      *)
(***************************************************************************)
Num(n) == [k |-> "num", v |-> n]
Opt(v) == [k |-> "opt", v |-> v]

Nums == {Num(1), Num(23)}
Nullables == {Opt(<<>>), Opt(<<Num(1)>>)}

SeqsUpTo(S, n) == UNION {[1..m -> S] : m \in 0..n}

\* arrays of numbers, of nullable numbers, and of arrays of numbers
ArrayValues ==
    LET Arr(v) == [k |-> "array", v |-> v]
    IN  {Arr(v) : v \in SeqsUpTo(Nums, MaxWr)}
            \cup {Arr(v) : v \in SeqsUpTo(Nullables, MaxWr)}
            \cup {Arr(v) : v \in SeqsUpTo({Arr(<<>>), Arr(<<Num(1)>>)}, MaxWr)}

\* the first keys of a, b, c, d in order, with nullable values
MapKeys == << <<ch.a>>, <<ch.b>>, <<ch.c>>, <<ch.d>> >>

MapValues ==
    {[k |-> "map", v |-> [i \in 1..Len(ks) |-> [first |-> ks[i], second |-> vs[i]]]] :
        <<ks, vs>> \in UNION {{SubSeq(MapKeys, 1, m)} \X [1..m -> Nullables] : m \in 0..MaxWr}}

TupleValues == {[k |-> "tuple", v |-> v] : v \in SeqsUpTo(Nums, MaxWr)}

\* structured values whose members x, y, z, d are nullable numbers
ObjectValues ==
    {[k |-> "object",
      names |-> SubSeq(<< <<ch.x>>, <<ch.y>>, <<ch.z>>, <<ch.d>> >>, 1, Len(v)), v |-> v] :
        v \in SeqsUpTo(Nullables, MaxWr)}

\* a union with the tag t holding an object alternative with the id A
VariantValues ==
    {[k |-> "variant", tag |-> tag, id |-> <<ch.uA>>, v |-> x] :
        tag \in {<<>>, <<ch.t>>}, x \in ObjectValues}

InitWr ==
    /\ pc = "start"
    /\ op = "write_json"
    /\ \E ty0 \in {"array", "map", "tuple", "object", "variant"} :
          /\ ty = ty0
          /\ \/ ty0 = "array" /\ old \in ArrayValues
             \/ ty0 = "map" /\ old \in MapValues
             \/ ty0 = "tuple" /\ old \in TupleValues
             \/ ty0 = "object" /\ old \in ObjectValues
             \/ ty0 = "variant" /\ old \in VariantValues
    /\ \E p \in BOOLEAN, sk \in BOOLEAN, wt \in BOOLEAN :
          opts = [WriteOpts EXCEPT !.prettify = p, !.skip_null_members = sk,
                                   !.write_type_info = wt]
    /\ doc = NoDoc
    /\ input = <<>>
    /\ dest = old
    /\ ctx = Ctx0(0)
    /\ sink = Sink0(DumpInitialSize, 0)
    /\ resink = NoSink

\* write_json(value, buffer): write<json>::op<Opts>(value, ctx, buffer, ix)
WriteValue ==
    /\ pc = "start" /\ op = "write_json"
    /\ sink' = write_json([w |-> sink, level |-> ctx.val], opts, dest).w
    /\ ctx' = SetVal(ctx, write_json([w |-> sink, level |-> ctx.val], opts, dest).level)
    /\ pc' = "written"
    /\ UNCHANGED <<op, ty, opts, doc, input, old, dest, resink>>

NextWr == WriteValue

SpecWr == InitWr /\ [][NextWr]_vars

Init == InitStr \/ InitRT \/ InitObj \/ InitVar \/ InitTag \/ InitArr \/ InitWs \/ InitNull \/ InitCap \/ InitHex \/ InitCount \/ InitKey \/ InitDed \/ InitWr \/ InitSeq \/ InitSet \/ InitLike \/ InitUnion

Next == NextStr \/ NextRT \/ NextObj \/ NextVar \/ NextArr \/ NextWs \/ NextNull \/ NextCap \/ NextHex \/ NextCount \/ NextKey \/ NextWr \/ NextSet \/ NextLike \/ NextUnion

Spec == Init /\ [][Next]_vars

(***************************************************************************)
(* Properties.                                                             *)
(***************************************************************************)
\* the code unit of a \uXXXX escape
CodeUnit(escape) == hex4_to_char32(escape, 2)

\* the scalar value a surrogate pair stands for
Combine(hi, lo) == 65536 + ((hi - 55296) * 1024) + (lo - 56320)

\* C1: when a read call returns, every error kind that was assigned to the
\* context's error slot during the call is the first one that was assigned:
\* no later step replaced the first error by another kind.
C1_FirstErrorKept ==
    pc = "done" => \A i \in 1..Len(ctx.log) : ctx.log[i] = ctx.log[1]

\* C2: during a read the cursor never goes past the end of the input: the
\* greatest position it ever had is at most end.
C2_CursorWithinInput == ctx.hi <= Len(input)

\* a strict read of an object cut off inside its first key, whose fast-path
\* key parser could not jump and scanned to the end of the input
C2_Witness ==
    /\ pc = "done" /\ op = "read_object"
    /\ opts.error_on_unknown_keys
    /\ ~doc.whole
    /\ Len(ty.names[2]) > 1
    /\ Len(input) >= 2 /\ input[Len(input)] = ch.b
    /\ ctx.hi = Len(input)

\* C3: every byte the string writer writes without a bounds check lands at an
\* index below the size the buffer has after the writer's reservation, for
\* every string length and every write index up to the buffer size.
C3_UncheckedWritesInBounds ==
    (op = "write_string" /\ pc = "written") => InBounds(sink)

\* C4: the text the writer produces for a value is read back without error,
\* and writing the value read back produces the same text again.
C4_RoundTrip ==
    /\ pc \in {"read", "done"} => ctx.err = NoErr
    /\ pc = "done" => resink.text = sink.text

\* C5: reading what the string writer wrote for a string s gives s, raises no
\* error and leaves the cursor just past the closing quote.
C5_StringRoundTrip ==
    (op = "write_string" /\ pc \in {"read", "done"}) =>
        /\ ctx.err = NoErr
        /\ dest = old
        /\ ctx.it = Len(input)

\* a string of a backslash and a double quote was written and read back
C5_Witness ==
    /\ op = "write_string" /\ pc = "read"
    /\ old = <<ch.bslash, ch.quote>>
    /\ input = <<ch.quote, ch.bslash, ch.bslash, ch.bslash, ch.quote, ch.quote>>

\* C6: a string made of the escape of a high surrogate followed by the escape
\* of a low surrogate is read without error, and the destination holds the
\* one scalar value the pair stands for.
C6_SurrogatePairCombined ==
    \A h \in HighEscapes, l \in LowEscapes :
        (pc = "done" /\ op = "read_string" /\ input = Quoted(h \o l)) =>
            /\ ctx.err = NoErr
            /\ dest = Utf8(Combine(CodeUnit(h), CodeUnit(l)))

\* the object read is over and its input was a whole, well-formed object
ObjectRead == pc = "done" /\ op = "read_object" /\ doc.whole

DeclaredNames == RangeOf(ty.names)

RequiredNames == {ty.names[i] : i \in ty.required}

\* C7: with strict unknown-key checking, a well-formed object that has a key
\* the type does not declare fails with unknown_key, whatever the key's length.
C7_UnknownKeyReported ==
    (ObjectRead /\ opts.error_on_unknown_keys /\ ~(DocKeys(doc) \subseteq DeclaredNames))
        => ctx.err = "unknown_key"

\* C8: in lenient mode the read of a well-formed object leaves each declared
\* field with the value of the last member of that name, or with the value it
\* had before the read when no member has that name; undeclared members are
\* skipped, and unless missing keys are checked the read succeeds at the end
\* of the input.
C8_LenientRead ==
    (ObjectRead /\ ~opts.error_on_unknown_keys) =>
        /\ \A i \in FieldIx(ty) : dest[i] = LastValue(doc.members, ty.names[i], old[i])
        /\ ~opts.error_on_missing_keys => (ctx.err = NoErr /\ ctx.it = Len(input))

\* a lenient read of an object with the first declared key and an undeclared
\* key: the first field is assigned, the second keeps its value
C8_Witness ==
    /\ ObjectRead /\ ~opts.error_on_unknown_keys /\ ~opts.error_on_missing_keys
    /\ DocKeys(doc) = {ty.names[1], <<ch.c, ch.c>>}
    /\ doc.members[1].key = <<ch.c, ch.c>>
    /\ ctx.err = NoErr
    /\ dest[1] = doc.members[2].val /\ dest[2] = old[2]

\* no key of the object is rejected as unknown
KeysAccepted == ~opts.error_on_unknown_keys \/ DocKeys(doc) \subseteq DeclaredNames

\* C9 as stated: with error_on_missing_keys the read of a well-formed object
\* succeeds if and only if every mandatory key occurred and fails with
\* missing_key otherwise; without the option missing_key is never raised.
C9_MissingKeysAsStated ==
    ObjectRead =>
        /\ opts.error_on_missing_keys =>
              ctx.err = (IF RequiredNames \subseteq DocKeys(doc) THEN NoErr ELSE "missing_key")
        /\ ~opts.error_on_missing_keys => ctx.err # "missing_key"

\* C9: with error_on_missing_keys the read of a well-formed object none of
\* whose keys is rejected as unknown succeeds if and only if every mandatory
\* key occurred and fails with missing_key otherwise; an object with a
\* rejected key fails with another error; without the option missing_key is
\* never raised.
C9_MissingKeys ==
    ObjectRead =>
        /\ (opts.error_on_missing_keys /\ KeysAccepted) =>
              ctx.err = (IF RequiredNames \subseteq DocKeys(doc) THEN NoErr ELSE "missing_key")
        /\ (opts.error_on_missing_keys /\ ~KeysAccepted) => ctx.err \notin {NoErr, "missing_key"}
        /\ ~opts.error_on_missing_keys => ctx.err # "missing_key"

\* both fields are mandatory and the object has the first key only
C9_Witness ==
    /\ ObjectRead /\ opts.error_on_missing_keys
    /\ ty.required = {1, 2}
    /\ DocKeys(doc) = {ty.names[1]}
    /\ ctx.err = "missing_key"

\* the union read is over and its input was a whole, well-formed object
VariantRead == pc = "done" /\ op = "read_variant" /\ doc.whole

\* the union holds alternative i, whose fields have the values of the last
\* members of their names, the other fields those of the alternative held
\* before or of a fresh alternative
Resolved(i) ==
    /\ ctx.err = NoErr
    /\ dest.index = i
    /\ \A k \in FieldIx(ty.alts[i + 1]) :
          dest.v[k] = LastValue(doc.members, ty.alts[i + 1].names[k],
                                IF old.index = i THEN old.v[k] ELSE 0)

OnlyUndeclaredKey == DocKeys(doc) = {<<ch.z>>}

TaggedRead == pc = "done" /\ op = "read_variant" /\ ty.tag # <<>>

\* C11: an object whose discriminator member names alternative k resolves to
\* alternative k wherever that member stands in the object; a discriminator
\* value naming no alternative fails with no_matching_variant_type.
C11_DiscriminatorResolves ==
    TaggedRead =>
        /\ \A k \in AltIx(ty) :
              doc.id = ty.ids[k + 1] => (ctx.err = NoErr /\ dest.index = k)
        /\ doc.id = UnknownId => ctx.err = "no_matching_variant_type"

\* the texts `[]` and ` []`
EmptyArrayTexts == { <<ch.lbrack, ch.rbrack>>, <<ch.sp, ch.lbrack, ch.rbrack>> }

\* the read of `[]` into a container that can change size is over
EmptyArrayRead ==
    /\ pc = "done"
    /\ op \in {"read_array", "read_array_resize", "read_set"}
    /\ op = "read_array" => (ty.emplace_backable \/ ty.resizeable)
    /\ input \in EmptyArrayTexts

\* C12: reading `[]` into a growable sequence, a resize-only sequence or a
\* set succeeds and leaves the container empty, whatever it held, with the
\* cursor just past the closing bracket.
C12_EmptyArrayEmpties ==
    EmptyArrayRead =>
        /\ ctx.err = NoErr
        /\ IF op = "read_set" THEN dest = {} ELSE dest = <<>>
        /\ ctx.it = Len(input)

\* the input without its spaces
Unspaced == SelectSeq(input, LAMBDA c : c # ch.sp)

\* the array texts `[e,]` and `[e,e,]` of the elements 1 and true
TrailingCommaTexts ==
    LET e == { <<ch.d1>>, <<ch.t, ch.r, ch.u, ch.e>> }
    IN  { <<ch.lbrack>> \o x \o <<ch.comma, ch.rbrack>> : x \in e }
          \cup { <<ch.lbrack>> \o x \o <<ch.comma>> \o y \o <<ch.comma, ch.rbrack>> :
                   x \in e, y \in e }

\* the input is an array text whose closing bracket follows a comma, with
\* spaces anywhere between its tokens
TrailingComma == Unspaced \in TrailingCommaTexts

\* C13: an array text with a trailing comma before the closing bracket never
\* reads successfully, whatever the array-shaped destination (growable,
\* fixed-size, resize-only, set): the call ends with an error set.
C13_TrailingCommaFails ==
    (/\ pc = "done"
     /\ op \in {"read_array", "read_array_resize", "read_set"}
     /\ TrailingComma) => ctx.err # NoErr

\* the fixed-size sequence of one element read `[1,]`: the element was read,
\* then the comma asked for a second one
C13_Witness ==
    /\ pc = "done" /\ op = "read_array"
    /\ ~ty.emplace_backable /\ ~ty.resizeable
    /\ old = <<9>>
    /\ input = <<ch.lbrack, ch.d1, ch.comma, ch.rbrack>>
    /\ dest = <<1>>
    /\ ctx.err = "exceeded_static_array_size"

\* C14: reading a valid document with whitespace in front of it gives the
\* same destination value as reading the document alone, for the boolean,
\* number, string and raw-passthrough shapes.
C14_LeadingWhitespaceIgnored ==
    (op = "read_padded" /\ pc = "padded") => (ctx.err = NoErr /\ ctx.val = dest)

\* array texts closing before the three fields of the tuple are seen
ShortTupleTexts ==
    { <<ch.lbrack, ch.rbrack>>,
      <<ch.lbrack, ch.t, ch.r, ch.u, ch.e, ch.rbrack>> }

\* C15: reading an array text that closes before all declared fields of a
\* tuple have been seen (here `[]` and `[true]` for a tuple of three fields,
\* with spaces anywhere between the tokens) ends with an error set.
C15_ShortTupleFails ==
    (pc = "done" /\ op = "read_tuple" /\ Unspaced \in ShortTupleTexts)
        => ctx.err # NoErr

\* the input, after leading whitespace, starts with the literal null
NullLiteral ==
    \E k \in 0..Len(input) :
        /\ \A j \in 1..k : IsWs(input[j])
        /\ k + 4 <= Len(input)
        /\ SubSeq(input, k + 1, k + 4) = <<ch.n, ch.u, ch.l, ch.l>>

\* the inner read of the input, into the instance the destination held or
\* into a value-initialised one
InnerRead ==
    read_value(Ctx0(IF old = <<>> THEN DefaultValue(ty.inner) ELSE old[1]), input,
               DefaultOpts, ty.inner)

C17_ExactlyOneArrayHandler ==
    op = "read_container" => Cardinality(ArrayHandlers(ty)) = 1

\* the standard value of a hexadecimal digit
HexValue(c) == IF c <= 57 THEN c - 48 ELSE IF c <= 70 THEN c - 55 ELSE c - 87

\* the text "A"
EscapedA == Quoted(U4(ch.d0, ch.d0, ch.d4, ch.d1))

\* C18: for four hexadecimal digits h3 h2 h1 h0 (0-9, a-f, A-F in any mix)
\* hex4_to_char32 returns 4096*v(h3) + 256*v(h2) + 16*v(h1) + v(h0), and the
\* text "A" read into a character or a string gives A.
C18_Hex4Value ==
    /\ (pc = "done" /\ op = "hex4") =>
           dest = (4096 * HexValue(input[1])) + (256 * HexValue(input[2]))
                    + (16 * HexValue(input[3])) + HexValue(input[4])
    /\ (pc = "done" /\ op = "read_char" /\ input = EscapedA) =>
           (ctx.err = NoErr /\ dest = ch.uA)
    /\ (pc = "done" /\ op = "read_string" /\ input = EscapedA) =>
           (ctx.err = NoErr /\ dest = <<ch.uA>>)

\* the digits aF09, in both cases, were converted
C18_Witness ==
    /\ pc = "done" /\ op = "hex4"
    /\ input = <<ch.a, ch.uF, ch.d0, ch.d9>>
    /\ dest = 44809

\* the error kinds that only the element readers (boolean, number) assign
ElementErrors == {"expected_true_or_false", "parse_number_failure"}

\* C19: once the read of an element of a tuple or of a resize-then-fill
\* array has set the error, the enclosing handler returns: the cursor stays
\* where it was when the error was set and nothing more is assigned to the
\* error slot, so no later element is read and no further token is matched.
C19_ReturnsAfterElementError ==
    (/\ pc = "done"
     /\ op \in {"read_tuple", "read_array_resize"}
     /\ ctx.log # <<>>
     /\ ctx.log[1] \in ElementErrors)
        => (ctx.it = ctx.errat /\ Len(ctx.log) = 1)

\* C20: on a well-formed array text, the cursor just after the opening
\* bracket, number_of_array_elements returns the number of top-level
\* elements (strings, nested arrays and objects count as one each) and
\* leaves the caller's cursor where it was.
C20_CountsTopLevelElements ==
    (pc = "done" /\ op = "count") =>
        (ctx.err = NoErr /\ dest = Len(doc.members) /\ ctx.it = 1)

\* the generic scan for the first unescaped quote on the same input
GenericKey == parse_unescaped_key(match(Ctx0(old), input, ch.quote), input)

\* C21: whatever path parse_object_key takes for the type (fixed length,
\* short forward scan, bounded scan, generic scan), it gives the key text and
\* the cursor the generic scan gives on the same input, or both fail; also
\* for keys shorter or longer than every declared name.
C21_KeyPathsAgree ==
    (pc = "done" /\ op = "parse_key") =>
        \/ Failed(ctx) /\ Failed(GenericKey.s)
        \/ /\ ~Failed(ctx) /\ ~Failed(GenericKey.s)
           /\ dest = GenericKey.key
           /\ ctx.it = GenericKey.s.it

\* what the keys of the members ms decide, the alternatives in P being still
\* possible: an alternative, "none" (the set emptied or the object closed),
\* or "unknown" (a key that no alternative declares, when that is an error)
RECURSIVE Resolution(_, _, _, _)
Resolution(ms, V, P, strict) ==
    IF ms = <<>> THEN [kind |-> "none", index |-> 0]
    ELSE LET declaring == {i \in AltIx(V) :
                             \E k \in 1..Len(V.alts[i + 1].names) :
                                 V.alts[i + 1].names[k] = ms[1].key}
             Q == P \cap declaring
         IN  IF declaring = {}
             THEN IF strict THEN [kind |-> "unknown", index |-> 0]
                  ELSE Resolution(Tail(ms), V, P, strict)
             ELSE IF Q = {} THEN [kind |-> "none", index |-> 0]
             ELSE IF Cardinality(Q) = 1
             THEN [kind |-> "one", index |-> CHOOSE i \in Q : TRUE]
             ELSE Resolution(Tail(ms), V, Q, strict)

ByKeys == Resolution(doc.members, ty, AltIx(ty), opts.error_on_unknown_keys)

\* the whole input read as an object of the resolved alternative, into the
\* alternative the union held or into a default-constructed one
AsAlternative ==
    from_json_object(
        Ctx0(IF old.index = ByKeys.index THEN old.v ELSE DefaultAlt(ty, ByKeys.index).v),
        input, opts, ty.alts[ByKeys.index + 1], <<>>)

\* C22: key-driven resolution fails with no_matching_variant_type exactly
\* when the set of possible alternatives empties or the object closes before
\* one alternative is left; once one is left, the whole object is read from
\* its first key as that alternative.
C22_KeyDrivenResolution ==
    (pc = "done" /\ op = "read_variant" /\ ty \in DeductionTypes) =>
        /\ (ctx.err = "no_matching_variant_type") <=> (ByKeys.kind = "none")
        /\ ByKeys.kind = "one" =>
              /\ dest.index = ByKeys.index
              /\ dest.v = AsAlternative.val
              /\ ctx.err = AsAlternative.err
              /\ ctx.it = AsAlternative.it

\* x left {x,d} and {x,y}, then z emptied the set
C22_Witness ==
    /\ pc = "done" /\ op = "read_variant" /\ ty \in DeductionTypes
    /\ Len(doc.members) = 2
    /\ doc.members[1].key = <<ch.x>> /\ doc.members[2].key = <<ch.z>>
    /\ ctx.err = "no_matching_variant_type"

\* the output without the white space that prettify adds
Compact == SelectSeq(sink.text, LAMBDA c : ~IsWs(c))

\* a comma stands right after an opening bracket or brace, right before a
\* closing one, or right after another comma
StrayComma(text) ==
    \E i \in 1..(Len(text) - 1) :
        \/ text[i] \in {ch.lbrack, ch.lbrace, ch.comma} /\ text[i + 1] = ch.comma
        \/ text[i] = ch.comma /\ text[i + 1] \in {ch.rbrack, ch.rbrace}

\* C23: the output of a compound writer (array, map, tuple, object, union
\* written with its discriminator) has no comma right after the opening
\* bracket or brace, none right before the closing one and no two commas in
\* a row, for any number of emitted elements.
C23_NoStraySeparator ==
    (pc = "written" /\ op = "write_json") => ~StrayComma(Compact)

\* C24: with prettify, when the write of a compound value returns, the
\* context's indentation level is the one it had when the write began.
C24_IndentationRestored ==
    (pc = "written" /\ op = "write_json" /\ opts.prettify) => ctx.val = 0

\* the literal null stands somewhere in the text
EmitsNull(text) ==
    \E i \in 1..(Len(text) - 3) : SubSeq(text, i, i + 3) = <<ch.n, ch.u, ch.l, ch.l>>

\* C25: with skip_null_members, the map writer and the object writer emit no
\* pair or member whose value is empty, wherever it stands in iteration
\* order, and leave no separator at the start or at the end of the output.
C25_NullMembersSkipped ==
    (pc = "written" /\ op = "write_json" /\ ty \in {"map", "object"}
        /\ opts.skip_null_members)
    => (~EmitsNull(sink.text) /\ ~StrayComma(Compact))

\* the number a text of decimal digits between spaces denotes
RECURSIVE NumberOf(_, _)
NumberOf(text, acc) ==
    IF text = <<>> THEN acc
    ELSE IF Head(text) = ch.sp THEN NumberOf(Tail(text), acc)
    ELSE NumberOf(Tail(text), 10 * acc + (Head(text) - ch.d0))

Parsed(es) == [i \in 1..Len(es) |-> NumberOf(es[i], 0)]

FreshElement(text) == from_json_object(Ctx0(<<0, 0>>), text, opts, ty, <<>>).val

\* C27: after the set reader has read an array, the set holds, for each
\* input element, the result of reading that element into a fresh default
\* value, whatever was read before it in the array or by an earlier call.
C27_SetElementsFresh ==
    (pc = "done" /\ op = "read_set_static") =>
        (ctx.err = NoErr
         /\ dest.value = {FreshElement(doc.members[i]) : i \in 1..Len(doc.members)})

\* the same read with force_conformance the other way
OtherMode == read_like(Ctx0(old), input, [opts EXCEPT !.force_conformance = ~@], ty)

EscapeFree(text) == \A i \in 1..Len(text) : text[i] \notin {ch.bslash, ch.bs, ch.ff, ch.lf, ch.cr, ch.tab}

\* C28: a quoted text without escapes and without control characters read
\* into a string, a string view or a character array gives the same
\* destination value with force_conformance on and off.
C28_ModesAgree ==
    (pc = "done" /\ op = "read_like" /\ EscapeFree(input)
        /\ ctx.err = NoErr /\ OtherMode.err = NoErr)
    => dest = OtherMode.val

\* C29: whenever the string reader returns with no error set, it has
\* consumed a closing quote: the input up to the cursor is a complete quoted
\* text.  An input that ends before the closing quote is never read with
\* success, with force_conformance on or off.
C29_SuccessHasClosingQuote ==
    (pc = "done" /\ op = "read_string" /\ ctx.err = NoErr)
    => SubSeq(input, 1, ctx.it) \in QuotedTexts

\* C30: after a successful read of the literal null into an auto-deducible
\* union with a nullable alternative, the union holds that alternative
\* empty, whatever it held before the read.
C30_NullEmptiesUnion ==
    (pc = "done" /\ op = "read_union" /\ NullLiteral /\ ctx.err = NoErr
        /\ FirstAlt(ty, "opt") >= 0)
    => dest = [index |-> FirstAlt(ty, "opt"), v |-> <<>>]

====
